---- MODULE Spec2Model ----
(***************************************************************************)
(* Model of the semantic index of magento2-ls: the provenance-tracked      *)
(* State (src/src/state.rs), the JS alias / mixin resolution               *)
(* (src/src/js.rs), class and template resolution (src/src/lsp/definition) *)
(* and the workspace scan jobs that share the State behind one mutex.      *)
(*                                                                         *)
(* Text (ids, class names, module names) is a sequence of one-character    *)
(* strings, so that split / join / prefix tests are computed as the code   *)
(* computes them.  A filesystem path (PathBuf) is a sequence of            *)
(* components, each component a text.  Option<T> is a record tagged        *)
(* "Some" / "None".                                                        *)
(***************************************************************************)
EXTENDS Integers, Sequences, FiniteSets, TLC

VARIABLES
    state,       \* the State struct behind ArcState (state.rs:68-79)
    alive,       \* FALSE once the process has aborted (stack overflow)
    hash_order,  \* iteration order of the HashMaps of this process
    lock,        \* owner of the parking_lot Mutex of ArcState, or NoThread
    control,     \* the control thread: its position and current request
    jobs,        \* the spawned scan jobs (threads of spawn_index)
    spawned,     \* history: root and returned handles of every update_index
    query,       \* input and result of the last resolution query
    disk,        \* the filesystem: path -> content of the file
    documents,   \* history: path -> text of its last set_file, still open or not
    registrations \* history: the add_module_path calls, in order, retracted or not

vars == <<state, alive, hash_order, lock, control, jobs, spawned, query, disk, documents, registrations>>

(***************************************************************************)
(* Generic helpers: Option, HashMap, text.                                 *)
(***************************************************************************)
None == [tag |-> "None"]
Some(x) == [tag |-> "Some", val |-> x]
Diverged == [tag |-> "Diverged"]

EmptyMap == [k \in {} |-> <<>>]
MapInsert(m, k, v) == [x \in (DOMAIN m) \cup {k} |-> IF x = k THEN v ELSE m[x]]
MapRemove(m, k) == [x \in (DOMAIN m) \ {k} |-> m[x]]
MapGet(m, k) == IF k \in DOMAIN m THEN Some(m[k]) ELSE None

Max(S) == CHOOSE x \in S : \A y \in S : y <= x
Min(S) == CHOOSE x \in S : \A y \in S : x <= y

StartsWith(s, p) == Len(p) <= Len(s) /\ SubSeq(s, 1, Len(p)) = p
EndsWith(s, p) == Len(p) <= Len(s) /\ SubSeq(s, Len(s) - Len(p) + 1, Len(s)) = p
Count(s, c) == Cardinality({i \in 1..Len(s) : s[i] = c})

\* str::find: position of the first occurrence of pat in s, 0 when absent
Find(s, pat) ==
    LET I == {i \in 1..(Len(s) - Len(pat) + 1) : SubSeq(s, i, i + Len(pat) - 1) = pat}
    IN  IF I = {} THEN 0 ELSE Min(I)

\* str::replacen(pat, rep, 1)
Replacen1(s, pat, rep) ==
    LET i == Find(s, pat)
    IN  IF i = 0 THEN s
        ELSE SubSeq(s, 1, i - 1) \o rep \o SubSeq(s, i + Len(pat), Len(s))

\* str::split(c): the segments of s between occurrences of the character c
RECURSIVE Split(_, _)
Split(s, c) ==
    LET I == {i \in 1..Len(s) : s[i] = c}
    IN  IF I = {} THEN <<s>>
        ELSE LET i == Min(I)
             IN  <<SubSeq(s, 1, i - 1)>> \o Split(SubSeq(s, i + 1, Len(s)), c)

\* str::splitn(2, c)
SplitN2(s, c) ==
    LET I == {i \in 1..Len(s) : s[i] = c}
    IN  IF I = {} THEN <<s>>
        ELSE LET i == Min(I)
             IN  <<SubSeq(s, 1, i - 1), SubSeq(s, i + 1, Len(s))>>

\* [&str]::join(c)
RECURSIVE Join(_, _)
Join(parts, c) ==
    IF Len(parts) = 0 THEN <<>>
    ELSE IF Len(parts) = 1 THEN parts[1]
    ELSE parts[1] \o <<c>> \o Join(Tail(parts), c)

Reverse(s) == [i \in 1..Len(s) |-> s[Len(s) + 1 - i]]

UppercaseLetters ==
    {"A", "B", "C", "D", "E", "F", "G", "H", "I", "J", "K", "L", "M",
     "N", "O", "P", "Q", "R", "S", "T", "U", "V", "W", "X", "Y", "Z"}

\* the sequences over S of length at most n
SeqsUpTo(S, n) == UNION {[1..k -> S] : k \in 0..n}

\* the orders in which a HashMap over the keys K may be iterated
Perms(K) == {p \in [1..Cardinality(K) -> K] : \A i, j \in DOMAIN p : i # j => p[i] # p[j]}

\* the keys of K in the iteration order of this process
IterOrder(K) == SelectSeq(hash_order, LAMBDA k : k \in K)

(***************************************************************************)
(* The string literals of the source, as texts.                            *)
(***************************************************************************)
s_w == <<"w">>
s_v == <<"v">>
s_app == <<"a", "p", "p">>
s_code == <<"c", "o", "d", "e">>
s_A == <<"A">>
s_b == <<"b">>
s_view == <<"v", "i", "e", "w">>
s_base == <<"b", "a", "s", "e">>
s_frontend == <<"f", "r", "o", "n", "t", "e", "n", "d">>
s_adminhtml == <<"a", "d", "m", "i", "n", "h", "t", "m", "l">>
s_design == <<"d", "e", "s", "i", "g", "n">>
s_templates == <<"t", "e", "m", "p", "l", "a", "t", "e", "s">>
s_vendor == <<"v", "e", "n", "d", "o", "r">>
s_Magento_Theme ==
    <<"M", "a", "g", "e", "n", "t",
      "o", "_", "T", "h", "e", "m", "e">>
s_requirejs_config_js ==
    <<"r", "e", "q", "u", "i", "r", "e", "j", "s",
      "-", "c", "o", "n", "f", "i", "g", ".", "j", "s">>
s_registration_php ==
    <<"r", "e", "g", "i", "s", "t", "r", "a",
      "t", "i", "o", "n", ".", "p", "h", "p">>
s_star == <<"*">>
s_starstar == <<"*", "*">>
s_php == <<"p", "h", "p">>

(***************************************************************************)
(* m2.rs: areas and paths.                                                 *)
(***************************************************************************)
Frontend == "Frontend"
Adminhtml == "Adminhtml"
Base == "Base"
M2Area == {Frontend, Adminhtml, Base}

\* area candidates with the fallback area first
path_candidates_base_first(area) ==
    CASE area = Frontend -> <<s_base, s_frontend>>
      [] area = Adminhtml -> <<s_base, s_adminhtml>>
      [] area = Base -> <<s_base, s_frontend, s_adminhtml>>

path_candidates(area) ==
    CASE area = Frontend -> <<s_frontend, s_base>>
      [] area = Adminhtml -> <<s_adminhtml, s_base>>
      [] area = Base -> <<s_frontend, s_adminhtml, s_base>>

\* a fallback that goes through every area in turn
lower_area_chain(area) ==
    IF area = Frontend THEN Some(Adminhtml)
    ELSE IF area = Adminhtml THEN Some(Base)
    ELSE None

lower_area(area) ==
    IF area \in {Frontend, Adminhtml} THEN Some(Base) ELSE None

EmptyPath == <<>>

\* PathBuf::pop
pop(path) == IF Len(path) = 0 THEN path ELSE SubSeq(path, 1, Len(path) - 1)

\* M2Path::append: joins relative components
append(path, parts) == path \o parts

RECURSIVE has_components_loop(_, _, _, _, _)
has_components_loop(comps, i, parts, start, part_id) ==
    IF i > Len(comps) THEN FALSE
    ELSE LET component == comps[i]
         IN  IF start /\ parts[part_id + 1] # component THEN FALSE
             ELSE LET hit == (parts[part_id + 1] = component)
                      start2 == start \/ hit
                      part_id2 == IF hit THEN part_id + 1 ELSE part_id
                  IN  IF start2 /\ Len(parts) = part_id2 THEN TRUE
                      ELSE has_components_loop(comps, i + 1, parts, start2, part_id2)

has_components(path, parts) == has_components_loop(path, 1, parts, FALSE, 0)

get_area(path) ==
    IF has_components(path, <<s_view, s_base>>) \/ has_components(path, <<s_design, s_base>>)
    THEN Base
    ELSE IF has_components(path, <<s_view, s_frontend>>)
            \/ has_components(path, <<s_design, s_frontend>>)
    THEN Frontend
    ELSE IF has_components(path, <<s_view, s_adminhtml>>)
            \/ has_components(path, <<s_design, s_adminhtml>>)
    THEN Adminhtml
    ELSE Base

\* M2Path::to_path_str: the components joined by the separator
to_path_str(path) == Join(path, "/")

(***************************************************************************)
(* state.rs: the State struct, its provenance list and its tables.         *)
(* A Trackee is a tuple <<variant, ...>>; an M2Item likewise.              *)
(***************************************************************************)
AreaMaps == [a \in M2Area |-> EmptyMap]

\* State::new
NewState ==
    [source_file |-> None,
     track_entities |-> EmptyMap,
     buffers |-> EmptyMap,
     modules |-> <<>>,
     module_paths |-> EmptyMap,
     front_themes |-> EmptyMap,
     admin_themes |-> EmptyMap,
     js_maps |-> AreaMaps,
     js_paths |-> AreaMaps,
     js_mixins |-> AreaMaps,
     workspaces |-> <<>>]

\* the result of an operation during which the process aborted
Aborted == [aborted |-> TRUE]
IsAborted(s) == "aborted" \in DOMAIN s

\* TrackingList::track
track(te, source_path, trackee) ==
    MapInsert(te, source_path,
              (IF source_path \in DOMAIN te THEN te[source_path] ELSE <<>>) \o <<trackee>>)

\* TrackingList::maybe_track
maybe_track(te, source_path, trackee) ==
    IF source_path.tag = "Some" THEN track(te, source_path.val, trackee) ELSE te

\* TrackingList::untrack: the removed list, if any
untrack(te, source_path) == MapGet(te, source_path)

set_source_file(s, path) == [s EXCEPT !.source_file = Some(path)]

\* one arm of the match in State::clear_from_source
remove_trackee(s, trackee) ==
    CASE trackee[1] = "JsMap" ->
            [s EXCEPT !.js_maps[trackee[2]] = MapRemove(@, trackee[3])]
      [] trackee[1] = "JsMixin" ->
            [s EXCEPT !.js_mixins[trackee[2]] = MapRemove(@, trackee[3])]
      [] trackee[1] = "JsPaths" ->
            [s EXCEPT !.js_paths[trackee[2]] = MapRemove(@, trackee[3])]
      [] trackee[1] = "Module" ->
            [s EXCEPT !.modules = SelectSeq(@, LAMBDA m : m # trackee[2])]
      [] trackee[1] = "ModulePath" ->
            [s EXCEPT !.module_paths = MapRemove(@, trackee[2])]
      [] trackee[1] = "Themes" ->
            CASE trackee[2] = Frontend ->
                    [s EXCEPT !.front_themes = MapRemove(@, trackee[3])]
              [] trackee[2] = Adminhtml ->
                    [s EXCEPT !.admin_themes = MapRemove(@, trackee[3])]
              [] trackee[2] = Base ->
                    [s EXCEPT !.front_themes = MapRemove(@, trackee[3]),
                              !.admin_themes = MapRemove(@, trackee[3])]

RECURSIVE remove_trackees(_, _)
remove_trackees(s, list) ==
    IF Len(list) = 0 THEN s
    ELSE remove_trackees(remove_trackee(s, Head(list)), Tail(list))

\* a retraction that requires the provenance record to exist
clear_from_source_unwrap(s, path) ==
    LET list == untrack(s.track_entities, path)
    IN  IF list.tag = "Some"
        THEN remove_trackees([s EXCEPT !.track_entities = MapRemove(@, path)], list.val)
        ELSE Aborted

\* State::clear_from_source
clear_from_source(s, path) ==
    LET list == untrack(s.track_entities, path)
    IN  IF list.tag = "Some"
        THEN remove_trackees([s EXCEPT !.track_entities = MapRemove(@, path)], list.val)
        ELSE s

get_file(s, path) == MapGet(s.buffers, path)

\* a close that also retracts the facts of the document
del_file_retracting(s, path) ==
    [clear_from_source(s, path) EXCEPT !.buffers = MapRemove(@, path)]

del_file(s, path) == [s EXCEPT !.buffers = MapRemove(@, path)]

get_module_path(s, module) == MapGet(s.module_paths, module)

add_module(s, module) ==
    [s EXCEPT !.track_entities = maybe_track(@, s.source_file, <<"Module", module>>),
              !.modules = Append(@, module)]

add_module_path(s, module, path) ==
    [s EXCEPT !.track_entities = maybe_track(@, s.source_file, <<"ModulePath", module>>),
              !.module_paths = MapInsert(@, module, path)]

add_admin_theme_path(s, name, path) ==
    [s EXCEPT !.track_entities = maybe_track(@, s.source_file, <<"Themes", Adminhtml, name>>),
              !.admin_themes = MapInsert(@, name, path)]

add_front_theme_path(s, name, path) ==
    [s EXCEPT !.track_entities = maybe_track(@, s.source_file, <<"Themes", Frontend, name>>),
              !.front_themes = MapInsert(@, name, path)]

get_component_map(s, name, area) == MapGet(s.js_maps[area], name)

add_component_map(s, name, val, area) ==
    [s EXCEPT !.track_entities = maybe_track(@, s.source_file, <<"JsMap", area, name>>),
              !.js_maps[area] = MapInsert(@, name, val)]

\* the JsPath table: its insert, its key list and its lookup
add_component_path(s, name, val, area) ==
    [s EXCEPT !.track_entities = maybe_track(@, s.source_file, <<"JsPaths", area, name>>),
              !.js_paths[area] = MapInsert(@, name, val)]

get_component_paths_for_area(s, area) == IterOrder(DOMAIN s.js_paths[area])

get_component_path(s, name, area) == MapGet(s.js_paths[area], name)

\* a mixin lookup that also returns the mixins registered under Base
get_component_mixins_with_base(s, name, area) ==
    (IF name \in DOMAIN s.js_mixins[area] THEN s.js_mixins[area][name] ELSE <<>>)
        \o (IF area # Base /\ name \in DOMAIN s.js_mixins[Base]
            THEN s.js_mixins[Base][name] ELSE <<>>)

get_component_mixins_for_area(s, name, area) ==
    IF name \in DOMAIN s.js_mixins[area] THEN s.js_mixins[area][name] ELSE <<>>

list_front_themes_paths(s) ==
    LET order == IterOrder(DOMAIN s.front_themes)
    IN  [i \in 1..Len(order) |-> s.front_themes[order[i]]]

list_admin_themes_paths(s) ==
    LET order == IterOrder(DOMAIN s.admin_themes)
    IN  [i \in 1..Len(order) |-> s.admin_themes[order[i]]]

workspace_paths(s) == s.workspaces

add_workspace_path(s, path) == [s EXCEPT !.workspaces = Append(@, path)]

\* a registration test that never finds the root
has_workspace_path_never(s, path) == FALSE

has_workspace_path(s, path) == \E i \in 1..Len(s.workspaces) : s.workspaces[i] = path

(***************************************************************************)
(* js.rs: resolution of a JS id to a component.                            *)
(***************************************************************************)
text_bang == <<"t", "e", "x", "t", "!">>
dot_html == <<".", "h", "t", "m", "l">>

RECURSIVE resolve_paths_loop(_, _, _, _, _)
resolve_paths_loop(s, text, area, paths, result) ==
    IF Len(paths) = 0 THEN Some(result)
    ELSE LET path == Head(paths)
         IN  IF text = path \/ StartsWith(text, path \o <<"/">>)
             THEN LET new_path == get_component_path(s, path, area)
                  IN  IF new_path.tag = "None" THEN None
                      ELSE resolve_paths_loop(s, text, area, Tail(paths),
                                              Replacen1(result, path, new_path.val))
             ELSE resolve_paths_loop(s, text, area, Tail(paths), result)

resolve_paths(s, text, area) ==
    resolve_paths_loop(s, text, area, get_component_paths_for_area(s, area), text)

\* The recursion of resolve_maps has no bound in the code.  A run that ends
\* makes at most one call per alias entry of the two tables it reads, plus
\* one per table; a run that makes more calls has come back to a text it has
\* seen and never ends (the stack overflows): it is reported as Diverged.
MapsCallBound(s) ==
    Cardinality(DOMAIN s.js_maps[Frontend]) + Cardinality(DOMAIN s.js_maps[Adminhtml])
        + Cardinality(DOMAIN s.js_maps[Base]) + Cardinality(M2Area)

RECURSIVE resolve_maps_calls(_, _, _, _)
resolve_maps_calls(s, text, area, calls) ==
    IF calls > MapsCallBound(s) THEN Diverged
    ELSE LET t == get_component_map(s, text, area)
         IN  IF t.tag = "Some"
             THEN resolve_maps_calls(s, t.val, area, calls + 1)
             ELSE LET a == lower_area(area)
                  IN  IF a.tag = "Some"
                      THEN resolve_maps_calls(s, text, a.val, calls + 1)
                      ELSE Some(text)

resolve_maps(s, text, area) == resolve_maps_calls(s, text, area, 1)

FirstCharOr(text, default) == IF Len(text) = 0 THEN default ELSE text[1]

\* a classification that accepts any number of underscores in the first segment
resolved_text_to_component_any_underscore(s, text, path) ==
    LET begining == Split(text, "/")[1]
        parts == SplitN2(text, "/")
        mod_name == parts[1]
        mod_path == get_module_path(s, mod_name)
    IN  IF EndsWith(text, dot_html)
        THEN IF mod_path.tag = "None" \/ Len(parts) < 2 THEN None
             ELSE Some(<<"ModHtml", mod_name, parts[2], mod_path.val>>)
        ELSE IF FirstCharOr(begining, "a") = "."
        THEN Some(<<"RelComponent", text, pop(path)>>)
        ELSE IF Len(Split(text, "/")) > 1
                /\ Count(begining, "_") >= 1
                /\ FirstCharOr(begining, "a") \in UppercaseLetters
        THEN IF mod_path.tag = "None" \/ Len(parts) < 2 THEN None
             ELSE Some(<<"ModComponent", mod_name, parts[2], mod_path.val>>)
        ELSE Some(<<"Component", text>>)

resolved_text_to_component(s, text, path) ==
    LET begining == Split(text, "/")[1]
        parts == SplitN2(text, "/")
        mod_name == parts[1]
        mod_path == get_module_path(s, mod_name)
    IN  IF EndsWith(text, dot_html)
        THEN IF mod_path.tag = "None" \/ Len(parts) < 2 THEN None
             ELSE Some(<<"ModHtml", mod_name, parts[2], mod_path.val>>)
        ELSE IF FirstCharOr(begining, "a") = "."
        THEN Some(<<"RelComponent", text, pop(path)>>)
        ELSE IF Len(Split(text, "/")) > 1
                /\ Count(begining, "_") = 1
                /\ FirstCharOr(begining, "a") \in UppercaseLetters
        THEN IF mod_path.tag = "None" \/ Len(parts) < 2 THEN None
             ELSE Some(<<"ModComponent", mod_name, parts[2], mod_path.val>>)
        ELSE Some(<<"Component", text>>)

\* a resolution that strips one character less than the plugin prefix
text_to_component_short_strip(s, text, path) ==
    LET stripped == IF StartsWith(text, text_bang)
                    THEN SubSeq(text, Len(text_bang), Len(text))
                    ELSE text
        area == get_area(path)
        pathed == resolve_paths(s, stripped, area)
    IN  IF pathed.tag = "None" THEN None
        ELSE LET mapped == resolve_maps(s, pathed.val, area)
             IN  IF mapped.tag = "Some"
                 THEN resolved_text_to_component(s, mapped.val, path)
                 ELSE mapped

text_to_component(s, text, path) ==
    LET stripped == IF StartsWith(text, text_bang)
                    THEN SubSeq(text, Len(text_bang) + 1, Len(text))
                    ELSE text
        area == get_area(path)
        pathed == resolve_paths(s, stripped, area)
    IN  IF pathed.tag = "None" THEN None
        ELSE LET mapped == resolve_maps(s, pathed.val, area)
             IN  IF mapped.tag = "Some"
                 THEN resolved_text_to_component(s, mapped.val, path)
                 ELSE mapped

\* State::add_component_mixin
add_component_mixin(s, name, val, area) ==
    LET tracked == [s EXCEPT !.track_entities =
                        maybe_track(@, s.source_file, <<"JsMixin", area, name>>)]
        component == text_to_component(tracked, val, EmptyPath)
    IN  IF component.tag = "Diverged" THEN Aborted
        ELSE IF component.tag = "Some"
        THEN [tracked EXCEPT !.js_mixins[area] =
                  MapInsert(@, name,
                            (IF name \in DOMAIN @ THEN @[name] ELSE <<>>)
                                \o <<component.val>>)]
        ELSE tracked

(***************************************************************************)
(* Source text.  The syntax-tree queries are an external collaborator: a   *)
(* file's content is the sequence of matches the queries yield on it, a    *)
(* match being <<kind, key, val>> with kind "map", "paths", "mixins" (the  *)
(* three patterns of js_require_config) or "register" (php_registration).  *)
(***************************************************************************)
JsKinds == {"map", "paths", "mixins"}

js_require_config(content) == SelectSeq(content, LAMBDA m : m[1] \in JsKinds)

php_registration(content) == SelectSeq(content, LAMBDA m : m[1] = "register")

RECURSIVE js_index_matches(_, _, _)
js_index_matches(s, matches, area) ==
    IF IsAborted(s) \/ Len(matches) = 0 THEN s
    ELSE LET m == Head(matches)
             next == CASE m[1] = "map" -> add_component_map(s, m[2], m[3], area)
                       [] m[1] = "paths" -> add_component_path(s, m[2], m[3], area)
                       [] m[1] = "mixins" -> add_component_mixin(s, m[2], m[3], area)
                       [] OTHER -> s
         IN  js_index_matches(next, Tail(matches), area)

\* js::update_index_from_config
update_index_from_config(s, content, file_path) ==
    js_index_matches(set_source_file(s, file_path), js_require_config(content),
                     get_area(file_path))

\* js::maybe_index_file
js_maybe_index_file(s, content, file_path) ==
    IF EndsWith(to_path_str(file_path), s_requirejs_config_js)
    THEN update_index_from_config(s, content, file_path)
    ELSE s

(***************************************************************************)
(* php.rs: module and theme registration.                                  *)
(***************************************************************************)
LowerAlphabet ==
    <<"a", "b", "c", "d", "e", "f", "g", "h", "i", "j", "k", "l", "m",
      "n", "o", "p", "q", "r", "s", "t", "u", "v", "w", "x", "y", "z">>
UpperAlphabet ==
    <<"A", "B", "C", "D", "E", "F", "G", "H", "I", "J", "K", "L", "M",
      "N", "O", "P", "Q", "R", "S", "T", "U", "V", "W", "X", "Y", "Z">>
IsLower(c) == \E i \in DOMAIN LowerAlphabet : LowerAlphabet[i] = c
IsUpper(c) == \E i \in DOMAIN UpperAlphabet : UpperAlphabet[i] = c
ToUpper(c) ==
    IF IsLower(c) THEN UpperAlphabet[CHOOSE i \in DOMAIN LowerAlphabet : LowerAlphabet[i] = c]
    ELSE c
ToLower(c) ==
    IF IsUpper(c) THEN LowerAlphabet[CHOOSE i \in DOMAIN UpperAlphabet : UpperAlphabet[i] = c]
    ELSE c

\* to_case(Case::Pascal) on letters and the delimiters '-', '_', ' ': a word
\* starts after a delimiter and where an uppercase letter follows a lowercase
RECURSIVE to_pascal_loop(_, _, _, _)
to_pascal_loop(w, i, word_start, prev_lower) ==
    IF i > Len(w) THEN <<>>
    ELSE LET c == w[i]
         IN  IF c \in {"-", "_", " "}
             THEN to_pascal_loop(w, i + 1, TRUE, FALSE)
             ELSE IF word_start \/ (prev_lower /\ IsUpper(c))
             THEN <<ToUpper(c)>> \o to_pascal_loop(w, i + 1, FALSE, IsLower(c))
             ELSE <<ToLower(c)>> \o to_pascal_loop(w, i + 1, FALSE, IsLower(c))

to_pascal(w) == to_pascal_loop(w, 1, TRUE, FALSE)

\* php::register_param_to_module: Option<M2Module> as a tagged record
register_param_to_module(param) ==
    IF Count(param, "/") = 2
    THEN IF StartsWith(param, s_frontend)
         THEN [tag |-> "FrontTheme", val |-> param]
         ELSE [tag |-> "AdminTheme", val |-> param]
    ELSE IF Count(param, "/") = 1
    THEN LET parts == SplitN2(param, "/")
             p1 == to_pascal(parts[1])
             p2 == parts[2]
         IN  IF Count(p2, "-") > 0
             THEN LET sub == SplitN2(p2, "-")
                  IN  [tag |-> "Library",
                       val |-> p1 \o <<"\\">> \o to_pascal(sub[1])
                                  \o <<"\\">> \o to_pascal(sub[2])]
             ELSE [tag |-> "Library", val |-> p1 \o <<"\\">> \o to_pascal(p2)]
    ELSE IF Count(param, "_") = 1
    THEN LET parts == Split(param, "_")
         IN  [tag |-> "Module", val |-> parts[1] \o <<"\\">> \o parts[2]]
    ELSE None

\* the registrations of one registration.php: the module under its name
\* "as is" and under its namespace, or the theme
RECURSIVE php_index_matches(_, _, _)
php_index_matches(s, matches, parent) ==
    IF Len(matches) = 0 THEN s
    ELSE LET mod_name == Head(matches)[2]
             named == add_module_path(add_module(s, mod_name), mod_name, parent)
             kind == register_param_to_module(mod_name)
             next == CASE kind.tag \in {"Module", "Library"} ->
                            add_module_path(named, kind.val, parent)
                       [] kind.tag = "FrontTheme" ->
                            add_front_theme_path(named, kind.val, parent)
                       [] kind.tag = "AdminTheme" ->
                            add_admin_theme_path(named, kind.val, parent)
                       [] OTHER -> named
         IN  php_index_matches(next, Tail(matches), parent)

update_index_from_registration(s, content, file_path) ==
    php_index_matches(set_source_file(s, file_path), php_registration(content),
                      pop(file_path))

php_maybe_index_file(s, content, file_path) ==
    IF EndsWith(to_path_str(file_path), s_registration_php)
    THEN update_index_from_registration(s, content, file_path)
    ELSE s

(***************************************************************************)
(* state.rs, lsp/definition/php.rs: class resolution.                      *)
(***************************************************************************)
\* a class resolution that takes the shortest registered prefix
RECURSIVE split_class_shortest_loop(_, _, _)
split_class_shortest_loop(s, parts, i) ==
    IF i >= Len(parts) THEN None
    ELSE LET module_path == get_module_path(s, Join(SubSeq(parts, 1, i), "\\"))
         IN  IF module_path.tag = "Some"
             THEN Some(<<module_path.val, SubSeq(parts, i + 1, Len(parts))>>)
             ELSE split_class_shortest_loop(s, parts, i + 1)

split_class_shortest(s, class) == split_class_shortest_loop(s, Split(class, "\\"), 0)

RECURSIVE split_class_loop(_, _, _)
split_class_loop(s, parts, suffix) ==
    IF Len(parts) = 0 THEN None
    ELSE LET part == parts[Len(parts)]
             rest == SubSeq(parts, 1, Len(parts) - 1)
             pushed == Append(suffix, part)
             prefix == Join(rest, "\\")
             module_path == get_module_path(s, prefix)
         IN  IF module_path.tag = "Some"
             THEN Some(<<module_path.val, Reverse(pushed)>>)
             ELSE split_class_loop(s, rest, pushed)

\* State::split_class_to_path_and_suffix
split_class_to_path_and_suffix(s, class) == split_class_loop(s, Split(class, "\\"), <<>>)

\* PathBuf::push of a relative part; an empty part adds no component
push(path, part) == IF Len(part) = 0 THEN path ELSE Append(path, part)

RECURSIVE push_all(_, _)
push_all(path, parts) ==
    IF Len(parts) = 0 THEN path ELSE push_all(push(path, Head(parts)), Tail(parts))

\* PathBuf::set_extension: the text after the last dot of the file name is
\* replaced; a name without a dot (or with its only dot in front) gets one
set_extension(path, ext) ==
    IF Len(path) = 0 THEN path
    ELSE LET name == path[Len(path)]
             dots == {i \in 2..Len(name) : name[i] = "."}
             stem == IF dots = {} THEN name
                     ELSE SubSeq(name, 1, (CHOOSE i \in dots : \A j \in dots : j <= i) - 1)
         IN  Append(pop(path), stem \o <<".">> \o ext)

\* Path::extension: the text after the last dot of the file name, None for
\* a name without a dot or with its only dot in front
extension(path) ==
    IF Len(path) = 0 THEN None
    ELSE LET name == path[Len(path)]
             dots == {i \in 2..Len(name) : name[i] = "."}
         IN  IF dots = {} THEN None
             ELSE Some(SubSeq(name, (CHOOSE i \in dots : \A j \in dots : j <= i) + 1,
                              Len(name)))

\* M2Path::append_ext
append_ext(path, ext) ==
    LET current == extension(path)
    IN  IF current.tag = "None" THEN set_extension(path, ext)
        ELSE set_extension(path, current.val \o <<".">> \o ext)

\* Path::join of a text that may hold several components: a path is compared
\* and opened by its components, so "." and empty components are dropped;
\* an absolute text replaces the path
join(path, part) ==
    LET comps == SelectSeq(Split(part, "/"), LAMBDA c : c # <<>> /\ c # <<".">>)
    IN  IF Len(part) > 0 /\ part[1] = "/" THEN comps ELSE path \o comps

\* the file get_php_class_from_class_name looks for, if the class has a module
class_file_path(s, class) ==
    LET module_path == split_class_to_path_and_suffix(s, class)
    IN  IF module_path.tag = "None" THEN None
        ELSE Some(set_extension(push_all(module_path.val[1], module_path.val[2]), s_php))

(***************************************************************************)
(* lsp/definition/phtml.rs: template resolution.  A Location is the path   *)
(* of the file; d is the filesystem.                                       *)
(***************************************************************************)
is_file(d, path) == path \in DOMAIN d

\* path_to_location
path_to_location(d, path) == IF is_file(d, path) THEN Some(path) ELSE None

RECURSIVE push_locations(_, _, _)
push_locations(d, result, paths) ==
    IF Len(paths) = 0 THEN result
    ELSE LET location == path_to_location(d, Head(paths))
         IN  push_locations(d,
                            IF location.tag = "Some" THEN Append(result, location.val)
                            ELSE result,
                            Tail(paths))

add_phtml_in_mod_location(s, d, result, mod_name, template, area) ==
    LET mod_path == get_module_path(s, mod_name)
        areas == path_candidates(area)
    IN  IF mod_path.tag = "Some"
        THEN push_locations(d, result,
                 [i \in 1..Len(areas) |->
                     append(mod_path.val, <<s_view, areas[i], s_templates, template>>)])
        ELSE result

add_phtml_in_front_theme_location(s, d, result, mod_name, template) ==
    LET themes == list_front_themes_paths(s)
    IN  push_locations(d, result,
            [i \in 1..Len(themes) |-> append(themes[i], <<mod_name, s_templates, template>>)])

add_phtml_in_admin_theme_location(s, d, result, mod_name, template) ==
    LET themes == list_admin_themes_paths(s)
    IN  push_locations(d, result,
            [i \in 1..Len(themes) |-> append(themes[i], <<mod_name, s_templates, template>>)])

find_front(s, d, mod_name, template) ==
    add_phtml_in_front_theme_location(s, d,
        add_phtml_in_mod_location(s, d, <<>>, mod_name, template, Frontend),
        mod_name, template)

\* a find_admin that looks in the front themes
find_admin_front_themes(s, d, mod_name, template) ==
    add_phtml_in_front_theme_location(s, d,
        add_phtml_in_mod_location(s, d, <<>>, mod_name, template, Adminhtml),
        mod_name, template)

find_admin(s, d, mod_name, template) ==
    add_phtml_in_admin_theme_location(s, d,
        add_phtml_in_mod_location(s, d, <<>>, mod_name, template, Adminhtml),
        mod_name, template)

find_base(s, d, mod_name, template) ==
    add_phtml_in_admin_theme_location(s, d,
        add_phtml_in_front_theme_location(s, d,
            add_phtml_in_mod_location(s, d, <<>>, mod_name, template, Base),
            mod_name, template),
        mod_name, template)

(***************************************************************************)
(* lsp/definition/component.rs: JS component resolution.                   *)
(***************************************************************************)
s_js == <<"j", "s">>
s_web == <<"w", "e", "b">>

\* find_rel: Option<Vec<Location>>
find_rel(d, comp, path) ==
    LET location == path_to_location(d, set_extension(join(path, comp), s_js))
    IN  IF location.tag = "Some" THEN Some(<<location.val>>) ELSE None

\* the inner loops of mod_location: the locations of the components, in
\* order, each in the view directories of the area's candidates
RECURSIVE mod_location_loop(_, _, _, _)
mod_location_loop(d, result, components, area) ==
    IF Len(components) = 0 THEN result
    ELSE LET component == Head(components)
             areas == path_candidates(area)
             found ==
                 IF component[1] = "ModComponent"
                 THEN push_locations(d, result,
                          [i \in 1..Len(areas) |->
                              append_ext(join(append(component[4], <<s_view, areas[i], s_web>>),
                                              component[3]),
                                         s_js)])
                 ELSE result
         IN  mod_location_loop(d, found, Tail(components), area)

\* mod_location
mod_location(s, d, mod_name, file_path, mod_path, path) ==
    LET area == get_area(path)
        components ==
            <<<<"ModComponent", mod_name, file_path, mod_path>>>>
                \o get_component_mixins_for_area(s, mod_name \o <<"/">> \o file_path, area)
    IN  mod_location_loop(d, <<>>, components, area)

(***************************************************************************)
(* state.rs: live documents.                                               *)
(***************************************************************************)
\* a set_file that does not retract the facts of the previous content
set_file_keeping(s, path, content) ==
    LET js_done == js_maybe_index_file(s, content, path)
        php_done == IF IsAborted(js_done) THEN js_done
                    ELSE php_maybe_index_file(js_done, content, path)
    IN  IF IsAborted(php_done) THEN php_done
        ELSE [php_done EXCEPT !.buffers = MapInsert(@, path, content)]

\* State::set_file
set_file(s, path, content) ==
    LET cleared == clear_from_source(s, path)
        js_done == js_maybe_index_file(cleared, content, path)
        php_done == IF IsAborted(js_done) THEN js_done
                    ELSE php_maybe_index_file(js_done, content, path)
    IN  IF IsAborted(php_done) THEN php_done
        ELSE [php_done EXCEPT !.buffers = MapInsert(@, path, content)]

\* what a scan job does to the State for one discovered file, inside its
\* critical section: no retraction, no buffer
index_file_locked(s, path, content) ==
    IF EndsWith(to_path_str(path), s_requirejs_config_js)
    THEN update_index_from_config(s, content, path)
    ELSE update_index_from_registration(s, content, path)

(***************************************************************************)
(* Bounds and input sets of the model.                                     *)
(***************************************************************************)
MaxFiles == 2       \* files that are open or have provenance at one time

x == <<"x">>
y == <<"y">>
A_b == <<"A", "_", "b">>
A_b_c == <<"A", "_", "b", "/", "c">>
FrontT == s_frontend \o <<"/", "A", "/", "t">>
AdminT == <<"a", "d", "m", "i", "n", "h", "t", "m", "l", "/", "A", "/", "t">>

\* a workspace that is a module (w/view/base, w/registration.php) and holds
\* a second module under w/app/code/A/b
W == <<s_w>>
ModB == <<s_w, s_app, s_code, s_A, s_b>>
CfgA == <<s_w, s_view, s_base, s_requirejs_config_js>>
CfgB == ModB \o <<s_view, s_base, s_requirejs_config_js>>
RegA == <<s_w, s_registration_php>>
RegB == ModB \o <<s_registration_php>>
Files == {CfgA, CfgB, RegA, RegB}

\* the contents a requirejs-config.js may have: an alias, a self-alias, a
\* mixin on a library component, a mixin on a module component, a path
JsContents ==
    {<<>>,
     <<<<"map", x, y>>>>,
     <<<<"map", x, x>>>>,
     <<<<"mixins", x, x>>>>,
     <<<<"mixins", x, A_b_c>>>>,
     <<<<"paths", x, y>>, <<"mixins", y, x>>>>}

\* the contents a registration.php may have: a module, a front theme
PhpContents ==
    {<<>>,
     <<<<"register", A_b, <<>>>>>>,
     <<<<"register", FrontT, <<>>>>>>}

Contents(path) ==
    IF EndsWith(to_path_str(path), s_requirejs_config_js) THEN JsContents ELSE PhpContents

\* the threads of the process, as owners of the mutex
NoThread == [thread |-> "none", id |-> 0]
ControlThread == [thread |-> "control", id |-> 0]
JobThread(i) == [thread |-> "job", id |-> i]

Idle == [pc |-> "idle"]
NoQuery == [op |-> "none"]

\* the files that are open or have provenance
Touched(s) == (DOMAIN s.buffers) \cup (DOMAIN s.track_entities)
MayTouch(s, path) == path \in Touched(s) \/ Cardinality(Touched(s)) < MaxFiles

(***************************************************************************)
(* Spec: the live documents.  The control thread opens or changes a        *)
(* document (set_file) or closes it (del_file), each inside one critical   *)
(* section of the mutex.                                                   *)
(***************************************************************************)
Init ==
    /\ state = NewState
    /\ alive = TRUE
    /\ hash_order \in Perms({x, y})
    /\ lock = NoThread
    /\ control = Idle
    /\ jobs = EmptyMap
    /\ spawned = <<>>
    /\ query = NoQuery
    /\ disk = EmptyMap
    /\ documents = EmptyMap
    /\ registrations = <<>>

Commit(result) ==
    IF IsAborted(result)
    THEN alive' = FALSE /\ UNCHANGED state
    ELSE state' = result /\ UNCHANGED alive

SetFile(path, content) ==
    /\ alive
    /\ MayTouch(state, path)
    /\ Commit(set_file(state, path, content))
    /\ UNCHANGED <<hash_order, lock, control, jobs, spawned, query, disk, documents, registrations>>

DelFile(path) ==
    /\ alive
    /\ state' = del_file(state, path)
    /\ UNCHANGED <<alive, hash_order, lock, control, jobs, spawned, query, disk, documents, registrations>>

Next ==
    \/ \E path \in Files : \E content \in Contents(path) : SetFile(path, content)
    \/ \E path \in Files : DelFile(path)

Spec == Init /\ [][Next]_vars

(***************************************************************************)
(* Retraction and reinsertion (set_file, clear_from_source).               *)
(***************************************************************************)
\* the fact tables of a state and the provenance record of one file
Facts(s, path) ==
    IF IsAborted(s) THEN s
    ELSE [modules |-> s.modules,
          module_paths |-> s.module_paths,
          front_themes |-> s.front_themes,
          admin_themes |-> s.admin_themes,
          js_maps |-> s.js_maps,
          js_mixins |-> s.js_mixins,
          provenance |-> MapGet(s.track_entities, path)]

\* a recorded fact is in its table
Present(s, trackee) ==
    CASE trackee[1] = "JsMap" -> trackee[3] \in DOMAIN s.js_maps[trackee[2]]
      [] trackee[1] = "JsMixin" -> trackee[3] \in DOMAIN s.js_mixins[trackee[2]]
      [] trackee[1] = "JsPaths" -> trackee[3] \in DOMAIN s.js_paths[trackee[2]]
      [] trackee[1] = "Module" -> \E i \in 1..Len(s.modules) : s.modules[i] = trackee[2]
      [] trackee[1] = "ModulePath" -> trackee[2] \in DOMAIN s.module_paths
      [] trackee[1] = "Themes" ->
            \/ trackee[2] # Adminhtml /\ trackee[3] \in DOMAIN s.front_themes
            \/ trackee[2] # Frontend /\ trackee[3] \in DOMAIN s.admin_themes

\* C1: in every reachable index state, for every file F and contents C1, C2,
\* set_file(F, C1) followed by set_file(F, C2) leaves the fact tables and the
\* provenance record of F as set_file(F, C2) alone leaves them.
C1_RetractReinsertEquivalence ==
    alive =>
        \A F \in Files : \A c1, c2 \in Contents(F) :
            LET first == set_file(state, F, c1)
                twice == IF IsAborted(first) THEN first ELSE set_file(first, F, c2)
            IN  Facts(twice, F) = Facts(set_file(state, F, c2), F)

\* C2: in every reachable index state, clear_from_source(F) leaves in its
\* table every fact that is there and is recorded against another file G,
\* and leaves the provenance record of G as it is.
C2_RetractionIsExact ==
    alive =>
        \A F \in DOMAIN state.track_entities :
            LET cleared == clear_from_source(state, F)
            IN  \A G \in (DOMAIN state.track_entities) \ {F} :
                    /\ G \in DOMAIN cleared.track_entities
                    /\ cleared.track_entities[G] = state.track_entities[G]
                    /\ \A i \in 1..Len(state.track_entities[G]) :
                           Present(state, state.track_entities[G][i])
                               => Present(cleared, state.track_entities[G][i])

(***************************************************************************)
(* SpecScan: workspace registration and the two scan jobs.                 *)
(* The control thread registers roots (State::update_index) and serves     *)
(* class definitions (find_class); every registered root has a PHP job and *)
(* a JS job, threads that walk their glob patterns and index the files     *)
(* they discover.  Each step of a thread is one action.                    *)
(***************************************************************************)
MaxCalls == 2       \* calls of State::update_index

File(content) == [readable |-> TRUE, content |-> content]
Unreadable == [readable |-> FALSE, content |-> <<>>]

V == <<s_v>>
Roots == {W, V}

\* the paths of the model in the order in which glob yields them
SortedPaths == <<RegB, CfgB, RegA, CfgA>>

RECURSIVE glob_matches(_, _)
glob_matches(path, pattern) ==
    IF Len(pattern) = 0 THEN Len(path) = 0
    ELSE IF Head(pattern) = s_starstar
    THEN \E k \in 0..Len(path) :
            glob_matches(SubSeq(path, k + 1, Len(path)), Tail(pattern))
    ELSE /\ Len(path) > 0
         /\ Head(pattern) = s_star \/ Head(pattern) = Head(path)
         /\ glob_matches(Tail(path), Tail(pattern))

\* glob(pattern): the files of the filesystem d the pattern matches
glob(d, pattern) ==
    SelectSeq(SortedPaths, LAMBDA f : f \in DOMAIN d /\ glob_matches(f, pattern))

\* the patterns of js::update_index, in the order of its process_glob calls
js_patterns(path) ==
    <<append(path, <<s_view, s_star, s_requirejs_config_js>>),
      append(path, <<s_vendor, s_star, s_star, s_view, s_star, s_requirejs_config_js>>),
      append(path, <<s_vendor, s_star, s_star, s_Magento_Theme, s_requirejs_config_js>>),
      append(path, <<s_app, s_code, s_star, s_star, s_view, s_star, s_requirejs_config_js>>),
      append(path, <<s_app, s_design, s_starstar, s_requirejs_config_js>>)>>

\* the pattern of the registration discovery
php_patterns(path) == <<append(path, <<s_starstar, s_registration_php>>)>>

\* spawn_index: the thread of one job, about to run its callback
spawn_index(path, kind) ==
    [kind |-> kind,
     root |-> path,
     pc |-> "next",
     patterns |-> IF kind = "JS" THEN js_patterns(path) ELSE php_patterns(path),
     files |-> <<>>,
     file |-> EmptyPath,
     content |-> <<>>,
     indexed |-> <<>>]

\* State::update_index under its lock: the state, the jobs and the handles
update_index(s, js, path) ==
    IF has_workspace_path(s, path)
    THEN [state |-> s, jobs |-> js, handles |-> <<>>]
    ELSE [state |-> add_workspace_path(s, path),
          jobs |-> js \o <<spawn_index(path, "PHP"), spawn_index(path, "JS")>>,
          handles |-> <<Len(js) + 1, Len(js) + 2>>]

\* the filesystems of the model: a mixin on a module component next to the
\* module's registration; an unreadable first config; an alias and a mixin
\* that names the aliased id, with an unreadable registration
ScanDisks ==
    {(CfgA :> File(<<<<"mixins", x, A_b_c>>>>)) @@ (RegA :> File(<<<<"register", A_b, <<>>>>>>)),
     (CfgA :> Unreadable) @@ (CfgB :> File(<<<<"map", x, y>>>>))
         @@ (RegA :> File(<<<<"register", A_b, <<>>>>>>)),
     (CfgA :> File(<<<<"map", x, y>>>>)) @@ (CfgB :> File(<<<<"mixins", y, x>>>>))
         @@ (RegA :> Unreadable)}

A_b_C == <<"A", "\\", "b", "\\", "C">>
ClassNames == {A_b_C}

InitScan ==
    /\ state = NewState
    /\ alive = TRUE
    /\ hash_order \in Perms({})
    /\ lock = NoThread
    /\ control = Idle
    /\ jobs = <<>>
    /\ spawned = <<>>
    /\ query = NoQuery
    /\ disk \in ScanDisks
    /\ documents = EmptyMap
    /\ registrations = <<>>

\* the control thread takes the lock of State::update_index
UpdateIndexLock(path) ==
    /\ alive
    /\ control.pc = "idle"
    /\ lock = NoThread
    /\ Len(spawned) < MaxCalls
    /\ lock' = ControlThread
    /\ control' = [pc |-> "update_index", path |-> path]
    /\ UNCHANGED <<state, alive, hash_order, jobs, spawned, query, disk, documents, registrations>>

\* ... checks the root, registers it, spawns the jobs and drops the lock
UpdateIndexRegister ==
    /\ alive
    /\ control.pc = "update_index"
    /\ LET r == update_index(state, jobs, control.path)
       IN  /\ state' = r.state
           /\ jobs' = r.jobs
           /\ spawned' = Append(spawned, [path |-> control.path, handles |-> r.handles])
    /\ lock' = NoThread
    /\ control' = Idle
    /\ UNCHANGED <<alive, hash_order, query, disk, documents, registrations>>

\* find_class: state.lock(), then split_class_to_path_and_suffix
FindClassLock(class) ==
    /\ alive
    /\ control.pc = "idle"
    /\ lock = NoThread
    /\ LET file_path == class_file_path(state, class)
       IN  IF file_path.tag = "None"
           THEN /\ query' = [op |-> "find_class", class |-> class, result |-> None]
                /\ UNCHANGED <<lock, control>>
           ELSE /\ lock' = ControlThread
                /\ control' = [pc |-> "try_exists", class |-> class,
                               file_path |-> file_path.val]
                /\ UNCHANGED query
    /\ UNCHANGED <<state, alive, hash_order, jobs, spawned, disk, documents, registrations>>

\* ... file_path.try_exists(), the guard still alive
FindClassExists(exists) ==
    /\ alive
    /\ control.pc = "try_exists"
    /\ IF exists
       THEN /\ control' = [control EXCEPT !.pc = "parse_php_file"]
            /\ UNCHANGED <<lock, query>>
       ELSE /\ control' = Idle
            /\ lock' = NoThread
            /\ query' = [op |-> "find_class", class |-> control.class, result |-> None]
    /\ UNCHANGED <<state, alive, hash_order, jobs, spawned, disk, documents, registrations>>

\* ... parse_php_file reads and parses the file; the guard is dropped when
\* the statement ends
FindClassParse(parsed) ==
    /\ alive
    /\ control.pc = "parse_php_file"
    /\ control' = Idle
    /\ lock' = NoThread
    /\ query' = [op |-> "find_class", class |-> control.class,
                 result |-> IF parsed THEN Some(control.file_path) ELSE None]
    /\ UNCHANGED <<state, alive, hash_order, jobs, spawned, disk, documents, registrations>>

\* a job starts the glob of its next pattern
JobGlob(i) ==
    /\ alive
    /\ jobs[i].pc = "next"
    /\ Len(jobs[i].files) = 0
    /\ Len(jobs[i].patterns) > 0
    /\ jobs' = [jobs EXCEPT ![i].files = glob(disk, Head(jobs[i].patterns)),
                            ![i].patterns = Tail(@)]
    /\ UNCHANGED <<state, alive, hash_order, lock, control, spawned, query, disk, documents, registrations>>

\* the callback returns: the job is done
JobDone(i) ==
    /\ alive
    /\ jobs[i].pc = "next"
    /\ Len(jobs[i].files) = 0
    /\ Len(jobs[i].patterns) = 0
    /\ jobs' = [jobs EXCEPT ![i].pc = "done"]
    /\ UNCHANGED <<state, alive, hash_order, lock, control, spawned, query, disk, documents, registrations>>

\* js::index_file: read_to_string(..).expect(..)
JsRead(i) ==
    /\ alive
    /\ jobs[i].kind = "JS"
    /\ jobs[i].pc = "next"
    /\ Len(jobs[i].files) > 0
    /\ LET file_path == Head(jobs[i].files)
       IN  jobs' = IF disk[file_path].readable
                   THEN [jobs EXCEPT ![i].pc = "lock",
                                     ![i].file = file_path,
                                     ![i].content = disk[file_path].content]
                   ELSE [jobs EXCEPT ![i].pc = "panicked"]
    /\ UNCHANGED <<state, alive, hash_order, lock, control, spawned, query, disk, documents, registrations>>

\* js::index_file: state.lock(), the argument of update_index_from_config
JsLock(i) ==
    /\ alive
    /\ jobs[i].kind = "JS"
    /\ jobs[i].pc = "lock"
    /\ lock = NoThread
    /\ lock' = JobThread(i)
    /\ jobs' = [jobs EXCEPT ![i].pc = "parse"]
    /\ UNCHANGED <<state, alive, hash_order, control, spawned, query, disk, documents, registrations>>

\* js::update_index_from_config parses the content and inserts its facts;
\* the guard is dropped when the statement ends
JsIndex(i) ==
    /\ alive
    /\ jobs[i].kind = "JS"
    /\ jobs[i].pc = "parse"
    /\ Commit(update_index_from_config(state, jobs[i].content, jobs[i].file))
    /\ lock' = NoThread
    /\ jobs' = [jobs EXCEPT ![i].pc = "next",
                            ![i].files = Tail(@),
                            ![i].indexed = Append(@, jobs[i].file)]
    /\ UNCHANGED <<hash_order, control, spawned, query, disk, documents, registrations>>

\* the registration job reads a file; a file it cannot read is skipped
PhpRead(i) ==
    /\ alive
    /\ jobs[i].kind = "PHP"
    /\ jobs[i].pc = "next"
    /\ Len(jobs[i].files) > 0
    /\ LET file_path == Head(jobs[i].files)
       IN  jobs' = IF disk[file_path].readable
                   THEN [jobs EXCEPT ![i].pc = "parse",
                                     ![i].file = file_path,
                                     ![i].content = disk[file_path].content]
                   ELSE [jobs EXCEPT ![i].files = Tail(@)]
    /\ UNCHANGED <<state, alive, hash_order, lock, control, spawned, query, disk, documents, registrations>>

\* ... parses it
PhpParse(i) ==
    /\ alive
    /\ jobs[i].kind = "PHP"
    /\ jobs[i].pc = "parse"
    /\ jobs' = [jobs EXCEPT ![i].pc = "insert",
                            ![i].content = php_registration(@)]
    /\ UNCHANGED <<state, alive, hash_order, lock, control, spawned, query, disk, documents, registrations>>

\* ... and inserts the facts of the file in one critical section
PhpInsert(i) ==
    /\ alive
    /\ jobs[i].kind = "PHP"
    /\ jobs[i].pc = "insert"
    /\ lock = NoThread
    /\ state' = php_index_matches(set_source_file(state, jobs[i].file),
                                  jobs[i].content, pop(jobs[i].file))
    /\ jobs' = [jobs EXCEPT ![i].pc = "next",
                            ![i].files = Tail(@),
                            ![i].indexed = Append(@, jobs[i].file)]
    /\ UNCHANGED <<alive, hash_order, lock, control, spawned, query, disk, documents, registrations>>

NextScan ==
    \/ \E path \in Roots : UpdateIndexLock(path)
    \/ UpdateIndexRegister
    \/ \E class \in ClassNames : FindClassLock(class)
    \/ \E exists \in BOOLEAN : FindClassExists(exists)
    \/ \E parsed \in BOOLEAN : FindClassParse(parsed)
    \/ \E i \in DOMAIN jobs : JobGlob(i)
    \/ \E i \in DOMAIN jobs : JobDone(i)
    \/ \E i \in DOMAIN jobs : JsRead(i)
    \/ \E i \in DOMAIN jobs : JsLock(i)
    \/ \E i \in DOMAIN jobs : JsIndex(i)
    \/ \E i \in DOMAIN jobs : PhpRead(i)
    \/ \E i \in DOMAIN jobs : PhpParse(i)
    \/ \E i \in DOMAIN jobs : PhpInsert(i)

SpecScan == InitScan /\ [][NextScan]_vars

(***************************************************************************)
(* Properties of the workspace scan.                                       *)
(***************************************************************************)
JobsOf(path, kind) == {i \in DOMAIN jobs : jobs[i].root = path /\ jobs[i].kind = kind}

RECURSIVE discovered(_, _)
discovered(d, patterns) ==
    IF Len(patterns) = 0 THEN <<>>
    ELSE glob(d, Head(patterns)) \o discovered(d, Tail(patterns))

Range(s) == {s[i] : i \in DOMAIN s}

\* the readable files the jobs of the registered roots discover
ReadableDiscovered ==
    {f \in DOMAIN disk :
        /\ disk[f].readable
        /\ \E i \in 1..Len(state.workspaces) :
              f \in Range(discovered(disk, js_patterns(state.workspaces[i])))
                        \cup Range(discovered(disk, php_patterns(state.workspaces[i])))}

RECURSIVE index_files(_, _)
index_files(s, files) ==
    IF IsAborted(s) \/ Len(files) = 0 THEN s
    ELSE index_files(index_file_locked(s, Head(files), disk[Head(files)].content),
                     Tail(files))

IndexTables(s) ==
    IF IsAborted(s) THEN s
    ELSE [module_paths |-> s.module_paths,
          front_themes |-> s.front_themes,
          admin_themes |-> s.admin_themes,
          js_maps |-> s.js_maps,
          js_mixins |-> s.js_mixins]

\* the keys under which the facts of a file are stored
FactKeys(f) == {<<disk[f].content[i][1], disk[f].content[i][2]>> : i \in DOMAIN disk[f].content}
DistinctKeys == \A f, g \in DOMAIN disk : f # g => FactKeys(f) \cap FactKeys(g) = {}

AllJobsDone == Len(jobs) > 0 /\ \A i \in DOMAIN jobs : jobs[i].pc = "done"

\* C4: when the facts of the discovered files use pairwise distinct keys and
\* all jobs have finished, the module paths, themes, alias maps and mixin
\* lists are those of indexing the readable discovered files one after the
\* other, in whatever order.
C4_InterleavingIndependence ==
    (alive /\ AllJobsDone /\ DistinctKeys) =>
        \A order \in Perms(ReadableDiscovered) :
            IndexTables(state) = IndexTables(index_files(NewState, order))

\* C5: a thread that is about to check a file's existence, to read a file or
\* to parse source text does not hold the State mutex.
C5_NoLockAcrossIO ==
    /\ control.pc \in {"try_exists", "parse_php_file"} => lock # ControlThread
    /\ \A i \in DOMAIN jobs : jobs[i].pc = "parse" => lock # JobThread(i)

\* C6: a job that has stopped has reached the end of its patterns and has
\* indexed every readable file its patterns match.
C6_ScanFailureContained ==
    \A i \in DOMAIN jobs :
        (alive /\ jobs[i].pc \in {"done", "panicked"}) =>
            /\ jobs[i].pc = "done"
            /\ LET patterns == IF jobs[i].kind = "JS" THEN js_patterns(jobs[i].root)
                               ELSE php_patterns(jobs[i].root)
               IN  \A f \in Range(discovered(disk, patterns)) :
                       disk[f].readable => f \in Range(jobs[i].indexed)

(***************************************************************************)
(* SpecMaps: alias resolution.  Aliases are registered in the three area   *)
(* tables and an id is resolved from an area (resolve_maps); query is the  *)
(* last resolution against the tables as they are.                         *)
(***************************************************************************)
MapIds == {x, y}

InitMaps ==
    /\ state = NewState
    /\ alive = TRUE
    /\ hash_order \in Perms({})
    /\ lock = NoThread
    /\ control = Idle
    /\ jobs = <<>>
    /\ spawned = <<>>
    /\ query = NoQuery
    /\ disk = EmptyMap
    /\ documents = EmptyMap
    /\ registrations = <<>>

AddComponentMap(name, val, area) ==
    /\ state' = add_component_map(state, name, val, area)
    /\ query' = NoQuery
    /\ UNCHANGED <<alive, hash_order, lock, control, jobs, spawned, disk, documents, registrations>>

ResolveMaps(text, area) ==
    /\ query' = [op |-> "resolve_maps", text |-> text, area |-> area,
                 result |-> resolve_maps(state, text, area)]
    /\ UNCHANGED <<state, alive, hash_order, lock, control, jobs, spawned, disk, documents, registrations>>

NextMaps ==
    \/ \E name, val \in MapIds : \E area \in M2Area : AddComponentMap(name, val, area)
    \/ \E text \in MapIds : \E area \in M2Area : ResolveMaps(text, area)

SpecMaps == InitMaps /\ [][NextMaps]_vars

\* the state with the alias tables of the given areas only
OnlyAreas(s, areas) ==
    [s EXCEPT !.js_maps = [a \in M2Area |-> IF a \in areas THEN s.js_maps[a] ELSE EmptyMap]]

\* C7: a key that is in the Base table and not in the table of the query
\* area (Frontend or Adminhtml) resolves as its Base target does, to the
\* target itself when that is no Base key; a key that is neither in the
\* table of the query area nor in the Base table comes back unchanged,
\* whatever the other tables hold; and the result is the one obtained with
\* the tables of the query area and of Base alone.
C7_AreaFallback ==
    query.op = "resolve_maps" =>
        LET text == query.text
            area == query.area
            maps == state.js_maps
        IN  /\ (text \notin DOMAIN maps[area] /\ text \in DOMAIN maps[Base]) =>
                   /\ query.result = resolve_maps(state, maps[Base][text], Base)
                   /\ maps[Base][text] \notin DOMAIN maps[Base]
                          => query.result = Some(maps[Base][text])
            /\ (text \notin DOMAIN maps[area] /\ text \notin DOMAIN maps[Base]) =>
                   query.result = Some(text)
            /\ query.result = resolve_maps(OnlyAreas(state, {area, Base}), text, area)

\* C7 witness: x, aliased in Base and in Adminhtml but not in Frontend, has
\* been resolved from Frontend to its Base target
C7_Witness ==
    /\ query.op = "resolve_maps"
    /\ query.area = Frontend
    /\ query.text = x
    /\ x \notin DOMAIN state.js_maps[Frontend]
    /\ x \in DOMAIN state.js_maps[Adminhtml]
    /\ state.js_maps[Adminhtml][x] = x
    /\ x \in DOMAIN state.js_maps[Base]
    /\ state.js_maps[Base][x] = y
    /\ query.result = Some(y)

\* C10: every resolution ends and returns a text.
C10_ResolveMapsTerminates ==
    query.op = "resolve_maps" => query.result.tag = "Some"

(***************************************************************************)
(* SpecClass: class resolution.  Module paths are registered and a class   *)
(* identifier is split (split_class_to_path_and_suffix).                   *)
(***************************************************************************)
MaxSegs == 5        \* segments of a class identifier

Segments == {<<"A">>, <<"B">>, <<>>}
ClassIds == {Join(segs, "\\") : segs \in SeqsUpTo(Segments, MaxSegs) \ {<<>>}}

A_B == <<"A", "\\", "B">>
A_B_A == <<"A", "\\", "B", "\\", "A">>
A_B_A_B_A == <<"A", "\\", "B", "\\", "A", "\\", "B", "\\", "A">>
ModuleNames == {<<>>, <<"A">>, A_B, A_B_A}

\* the root of the module registered under a name
ModRoot(name) == <<s_w, name>>

AddModulePath(module, path) ==
    /\ state' = add_module_path(state, module, path)
    /\ query' = NoQuery
    /\ UNCHANGED <<alive, hash_order, lock, control, jobs, spawned, disk, documents, registrations>>

\* a class is split once the previous result has been dropped
SplitClass(class) ==
    /\ query = NoQuery
    /\ query' = [op |-> "split_class", class |-> class,
                 result |-> split_class_to_path_and_suffix(state, class)]
    /\ UNCHANGED <<state, alive, hash_order, lock, control, jobs, spawned, disk, documents, registrations>>

NextClass ==
    \/ \E module \in ModuleNames : AddModulePath(module, ModRoot(module))
    \/ \E class \in ClassIds : SplitClass(class)

SpecClass == InitMaps /\ [][NextClass]_vars

\* C8: with i the largest number of leading segments of the identifier,
\* fewer than all, whose join is a registered name, the result is the root
\* registered under that name with the remaining segments, in order and at
\* least one; there is no result exactly when no such i exists.
C8_LongestPrefix ==
    query.op = "split_class" =>
        LET segs == Split(query.class, "\\")
            n == Len(segs)
            Prefix(i) == Join(SubSeq(segs, 1, i), "\\")
            Hits == {i \in 0..(n - 1) : Prefix(i) \in DOMAIN state.module_paths}
        IN  IF Hits = {} THEN query.result = None
            ELSE LET i == Max(Hits)
                 IN  /\ query.result.tag = "Some"
                     /\ query.result.val[1] = state.module_paths[Prefix(i)]
                     /\ query.result.val[2] = SubSeq(segs, i + 1, n)
                     /\ Len(query.result.val[2]) >= 1
                     /\ SubSeq(segs, 1, i) \o query.result.val[2] = segs

\* C8 witness: with A\B and A\B\A registered, A\B\A\B\A has been split into
\* the root of A\B\A and the suffix [B, A]
C8_Witness ==
    /\ query.op = "split_class"
    /\ query.class = A_B_A_B_A
    /\ {A_B, A_B_A} \subseteq DOMAIN state.module_paths
    /\ query.result = Some(<<ModRoot(A_B_A), <<<<"B">>, <<"A">>>>>>)

(***************************************************************************)
(* SpecPhtml: template resolution.  A module and front themes are          *)
(* registered, template files come to exist, and a template id of the      *)
(* module is resolved for the frontend (find_front).                        *)
(***************************************************************************)
s_t == <<"t">>
s_u == <<"u">>
p_phtml == <<"p", ".", "p", "h", "t", "m", "l">>
FrontU == s_frontend \o <<"/", "A", "/", "u">>

ModRootA == <<s_w>>
ThemeRoot(name) == <<s_w, s_app, s_design, s_frontend, s_A, IF name = FrontT THEN s_t ELSE s_u>>
ThemeNames == {FrontT, FrontU}

TemplateFiles ==
    {append(ModRootA, <<s_view, area, s_templates, p_phtml>>) :
        area \in {s_frontend, s_adminhtml, s_base}}
    \cup {append(ThemeRoot(name), <<A_b, s_templates, p_phtml>>) : name \in ThemeNames}

InitPhtml ==
    /\ state = NewState
    /\ alive = TRUE
    /\ hash_order \in Perms(ThemeNames)
    /\ lock = NoThread
    /\ control = Idle
    /\ jobs = <<>>
    /\ spawned = <<>>
    /\ query = NoQuery
    /\ disk = EmptyMap
    /\ documents = EmptyMap
    /\ registrations = <<>>

AddFrontThemePath(name, path) ==
    /\ state' = add_front_theme_path(state, name, path)
    /\ query' = NoQuery
    /\ UNCHANGED <<alive, hash_order, lock, control, jobs, spawned, disk, documents, registrations>>

\* the environment creates a file
CreateFile(path) ==
    /\ path \notin DOMAIN disk
    /\ disk' = MapInsert(disk, path, File(<<>>))
    /\ query' = NoQuery
    /\ UNCHANGED <<state, alive, hash_order, lock, control, jobs, spawned, documents, registrations>>

FindFront(mod_name, template) ==
    /\ query' = [op |-> "find_front", mod_name |-> mod_name, template |-> template,
                 result |-> find_front(state, disk, mod_name, template)]
    /\ UNCHANGED <<state, alive, hash_order, lock, control, jobs, spawned, disk, documents, registrations>>

NextPhtml ==
    \/ AddModulePath(A_b, ModRootA)
    \/ \E name \in ThemeNames : AddFrontThemePath(name, ThemeRoot(name))
    \/ \E path \in TemplateFiles : CreateFile(path)
    \/ FindFront(A_b, p_phtml)

SpecPhtml == InitPhtml /\ [][NextPhtml]_vars

\* the candidates of a template id in the module and in the front themes
ModCandidate(q, area) ==
    append(state.module_paths[q.mod_name], <<s_view, area, s_templates, q.template>>)
ModCandidates(q) ==
    IF q.mod_name \in DOMAIN state.module_paths
    THEN {ModCandidate(q, s_frontend), ModCandidate(q, s_base)}
    ELSE {}
ThemeCandidates(q) ==
    {append(state.front_themes[name], <<q.mod_name, s_templates, q.template>>) :
        name \in DOMAIN state.front_themes}

\* C9: the result of find_front holds every candidate file that exists, once,
\* and nothing else; the candidates of the module come before those of the
\* themes, and the module's frontend template before its base template.
C9_TemplateCandidates ==
    query.op = "find_front" =>
        LET r == query.result
            all == ModCandidates(query) \cup ThemeCandidates(query)
        IN  /\ \A i \in 1..Len(r) : r[i] \in all /\ is_file(disk, r[i])
            /\ \A c \in all :
                   is_file(disk, c) => Cardinality({i \in 1..Len(r) : r[i] = c}) = 1
            /\ \A i, j \in 1..Len(r) :
                   (r[i] \in ModCandidates(query) /\ r[j] \in ThemeCandidates(query)) => i < j
            /\ \A i, j \in 1..Len(r) :
                   (/\ query.mod_name \in DOMAIN state.module_paths
                    /\ r[i] = ModCandidate(query, s_frontend)
                    /\ r[j] = ModCandidate(query, s_base)) => i < j

\* C9 witness: the module's frontend and base templates and a theme override
\* exist and find_front has returned the three, in that order
C9_Witness ==
    /\ query.op = "find_front"
    /\ Len(query.result) = 3
    /\ query.mod_name \in DOMAIN state.module_paths
    /\ query.result[1] = ModCandidate(query, s_frontend)
    /\ query.result[2] = ModCandidate(query, s_base)
    /\ query.result[3] \in ThemeCandidates(query)

(***************************************************************************)
(* SpecPaths: JsPath substitution.  Path prefixes are registered in the    *)
(* three area tables and an id is substituted for an area (resolve_paths). *)
(***************************************************************************)
s_a == <<"a">>
a_b == <<"a", "/", "b">>
a_c == <<"a", "/", "c">>
a_b_d == <<"a", "/", "b", "/", "d">>
s_ab == <<"a", "b">>
s_z == <<"z">>

PathKeys == {s_a, a_b}
PathVals == {s_z, a_c}
PathIds == {s_a, a_b, a_b_d, s_ab, x}

InitPaths ==
    /\ state = NewState
    /\ alive = TRUE
    /\ hash_order \in Perms(PathKeys)
    /\ lock = NoThread
    /\ control = Idle
    /\ jobs = <<>>
    /\ spawned = <<>>
    /\ query = NoQuery
    /\ disk = EmptyMap
    /\ documents = EmptyMap
    /\ registrations = <<>>

AddComponentPath(name, val, area) ==
    /\ state' = add_component_path(state, name, val, area)
    /\ query' = NoQuery
    /\ UNCHANGED <<alive, hash_order, lock, control, jobs, spawned, disk, documents, registrations>>

ResolvePaths(text, area) ==
    /\ query' = [op |-> "resolve_paths", text |-> text, area |-> area,
                 result |-> resolve_paths(state, text, area)]
    /\ UNCHANGED <<state, alive, hash_order, lock, control, jobs, spawned, disk, documents, registrations>>

NextPaths ==
    \/ \E name \in PathKeys : \E val \in PathVals : \E area \in M2Area :
           AddComponentPath(name, val, area)
    \/ \E text \in PathIds : \E area \in M2Area : ResolvePaths(text, area)

SpecPaths == InitPaths /\ [][NextPaths]_vars

\* the JsPath keys of the area that match the id
MatchingPaths(s, text, area) ==
    {k \in DOMAIN s.js_paths[area] : text = k \/ StartsWith(text, k \o <<"/">>)}

\* the id with its longest matching key replaced, at its start, by the target
LongestPathSubstitution(s, text, area) ==
    LET M == MatchingPaths(s, text, area)
    IN  IF M = {} THEN text
        ELSE LET k == CHOOSE k \in M : \A j \in M : Len(j) <= Len(k)
             IN  s.js_paths[area][k] \o SubSeq(text, Len(k) + 1, Len(text))

\* C11: resolve_paths returns the id with the longest matching JsPath key of
\* the area, and no other, replaced at the start of the id by its target;
\* an id that no key of the area matches comes back unchanged; the result is
\* the same in every iteration order of the path table.
C11_LongestPathOnly ==
    query.op = "resolve_paths" =>
        query.result = Some(LongestPathSubstitution(state, query.text, query.area))

(***************************************************************************)
(* SpecDocs: the document state machine.  The editor opens or changes a    *)
(* document (set_file) and closes it (del_file); documents remembers, for  *)
(* every path, the text of its last set_file and whether a del_file came   *)
(* after it.                                                               *)
(***************************************************************************)
DocFiles == {CfgA, CfgB, RegA}

\* the texts of a document: those of a registration.php, and of a
\* requirejs-config.js no facts, an alias, a mixin on a module component, a
\* path with a mixin
DocContents(path) ==
    IF EndsWith(to_path_str(path), s_requirejs_config_js)
    THEN {<<>>,
          <<<<"map", x, y>>>>,
          <<<<"mixins", x, A_b_c>>>>,
          <<<<"paths", x, y>>, <<"mixins", y, x>>>>}
    ELSE PhpContents

InitDocs ==
    /\ state = NewState
    /\ alive = TRUE
    /\ hash_order \in Perms({x, y})
    /\ lock = NoThread
    /\ control = Idle
    /\ jobs = <<>>
    /\ spawned = <<>>
    /\ query = NoQuery
    /\ disk = EmptyMap
    /\ documents = EmptyMap
    /\ registrations = <<>>

\* didOpen / didChange
OpenOrChange(path, content) ==
    /\ alive
    /\ Commit(set_file(state, path, content))
    /\ documents' = IF IsAborted(set_file(state, path, content)) THEN documents
                    ELSE MapInsert(documents, path, [text |-> content, open |-> TRUE])
    /\ UNCHANGED <<hash_order, lock, control, jobs, spawned, query, disk, registrations>>

\* didClose
Close(path) ==
    /\ alive
    /\ state' = del_file(state, path)
    /\ documents' = IF path \in DOMAIN documents
                    THEN [documents EXCEPT ![path].open = FALSE]
                    ELSE documents
    /\ UNCHANGED <<alive, hash_order, lock, control, jobs, spawned, query, disk, registrations>>

NextDocs ==
    \/ \E path \in DocFiles : \E content \in DocContents(path) : OpenOrChange(path, content)
    \/ \E path \in DocFiles : Close(path)

SpecDocs == InitDocs /\ [][NextDocs]_vars

\* the provenance entries of one match of a requirejs-config.js
JsAttributed(m, area) ==
    CASE m[1] = "map" -> <<<<"JsMap", area, m[2]>>>>
      [] m[1] = "paths" -> <<<<"JsPaths", area, m[2]>>>>
      [] m[1] = "mixins" -> <<<<"JsMixin", area, m[2]>>>>
      [] OTHER -> <<>>

\* the provenance entries of one registration of a registration.php
PhpAttributed(m) ==
    LET kind == register_param_to_module(m[2])
    IN  <<<<"Module", m[2]>>, <<"ModulePath", m[2]>>>> \o
        (CASE kind.tag \in {"Module", "Library"} -> <<<<"ModulePath", kind.val>>>>
           [] kind.tag = "FrontTheme" -> <<<<"Themes", Frontend, kind.val>>>>
           [] kind.tag = "AdminTheme" -> <<<<"Themes", Adminhtml, kind.val>>>>
           [] OTHER -> <<>>)

RECURSIVE Flatten(_)
Flatten(lists) == IF Len(lists) = 0 THEN <<>> ELSE Head(lists) \o Flatten(Tail(lists))

\* the facts a text yields when it is the content of the path: the
\* provenance record the path must have, None when the text yields no fact
Attributed(path, text) ==
    LET js == SelectSeq(text, LAMBDA m : m[1] \in {"map", "paths", "mixins"})
        php == SelectSeq(text, LAMBDA m : m[1] = "register")
        list == IF EndsWith(to_path_str(path), s_requirejs_config_js)
                THEN Flatten([i \in 1..Len(js) |-> JsAttributed(js[i], get_area(path))])
                ELSE IF EndsWith(to_path_str(path), s_registration_php)
                THEN Flatten([i \in 1..Len(php) |-> PhpAttributed(php[i])])
                ELSE <<>>
    IN  IF Len(list) = 0 THEN None ELSE Some(list)

C13_CloseChangesOnlyBuffer ==
    [][\A P \in DocFiles :
           (/\ P \in DOMAIN documents /\ documents[P].open
            /\ P \in DOMAIN documents' /\ ~documents'[P].open) =>
               /\ state'.buffers = MapRemove(state.buffers, P)
               /\ P \notin DOMAIN state'.buffers
               /\ [state' EXCEPT !.buffers = state.buffers] = state]_vars

\* C13 witness: a document with a provenance record whose facts are in the
\* tables has been closed while another document is still open
C13_Witness ==
    /\ alive
    /\ \E P, Q \in DOMAIN documents :
           /\ ~documents[P].open /\ documents[Q].open
           /\ P \notin DOMAIN state.buffers
           /\ Q \in DOMAIN state.buffers
           /\ P \in DOMAIN state.track_entities
           /\ \A i \in 1..Len(state.track_entities[P]) :
                  Present(state, state.track_entities[P][i])

\* C14: clear_from_source(P) for a path P without provenance record (never
\* tracked, or retracted before) returns the state as it is, without
\* aborting; and for every path P, tracked or not, a second
\* clear_from_source(P) changes nothing after the first.
C14_RetractUntrackedIsNoOp ==
    alive =>
        \A P \in DocFiles \cup {RegB} :
            LET once == clear_from_source(state, P)
            IN  /\ ~IsAborted(once)
                /\ P \notin DOMAIN state.track_entities => once = state
                /\ P \notin DOMAIN once.track_entities
                /\ clear_from_source(once, P) = once

\* C14 witness: a document that had a provenance record was changed to a
\* text without facts (its record is retracted) and changed again, while the
\* tables hold the facts of another document
C14_Witness ==
    /\ alive
    /\ \E P, Q \in DOMAIN documents :
           /\ P \notin DOMAIN state.track_entities
           /\ Q \in DOMAIN state.track_entities
           /\ \E i \in 1..Len(state.track_entities[Q]) :
                  Present(state, state.track_entities[Q][i])

(***************************************************************************)
(* SpecJs: classification of JS ids.  A module, aliases and a path prefix  *)
(* are registered, component files come to exist, and an id met in a file  *)
(* being edited is resolved (text_to_component, then find_rel for a        *)
(* relative component) or a resolved id is classified                      *)
(* (resolved_text_to_component).                                           *)
(***************************************************************************)
s_m_js == <<"m", ".", "j", "s">>
s_s_js == <<"s", ".", "j", "s">>
s_s_t_js == <<"s", ".", "t", ".", "j", "s">>

rel_s == <<".", "/", "s">>
rel_s_t == <<".", "/", "s", ".", "t">>
x_c == <<"x", "/", "c">>
lower_a_b_c == <<"a", "_", "b", "/", "c">>
A_b_c_c == <<"A", "_", "b", "_", "c", "/", "c">>
A_b_t_html == <<"A", "_", "b", "/", "t", ".", "h", "t", "m", "l">>
text_x == text_bang \o x
text_A_b_t_html == text_bang \o A_b_t_html

\* files being edited: one inside the registered module, one outside it
EditInModule == <<s_w, s_view, s_frontend, s_m_js>>
EditOutside == <<s_v, s_m_js>>
EditPaths == {EditInModule, EditOutside}

ComponentFiles ==
    {<<s_w, s_view, s_frontend, s_s_js>>, <<s_w, s_view, s_frontend, s_s_t_js>>,
     <<s_v, s_s_js>>}

RawIds == {rel_s, rel_s_t, x, A_b_c, text_x, text_A_b_t_html}
ResolvedIds == {x, x_c, A_b, A_b_c, lower_a_b_c, A_b_c_c}
AliasKeys == {x, text_x}

InitJs ==
    /\ state = NewState
    /\ alive = TRUE
    /\ hash_order \in Perms({x})
    /\ lock = NoThread
    /\ control = Idle
    /\ jobs = <<>>
    /\ spawned = <<>>
    /\ query = NoQuery
    /\ disk = EmptyMap
    /\ documents = EmptyMap
    /\ registrations = <<>>

\* an id at the cursor of the file being edited is resolved and, when it is
\* a relative component, located; a query is made once the result of the
\* previous one has been dropped
TextToComponent(text, path) ==
    /\ query = NoQuery
    /\ LET result == text_to_component(state, text, path)
       IN  query' = [op |-> "text_to_component", text |-> text, path |-> path,
                     result |-> result,
                     location |-> IF result.tag = "Some" /\ result.val[1] = "RelComponent"
                                  THEN find_rel(disk, result.val[2], result.val[3])
                                  ELSE None]
    /\ UNCHANGED <<state, alive, hash_order, lock, control, jobs, spawned, disk, documents, registrations>>

ResolvedTextToComponent(text, path) ==
    /\ query = NoQuery
    /\ query' = [op |-> "resolved_text_to_component", text |-> text, path |-> path,
                 result |-> resolved_text_to_component(state, text, path)]
    /\ UNCHANGED <<state, alive, hash_order, lock, control, jobs, spawned, disk, documents, registrations>>

NextJs ==
    \/ AddModulePath(A_b, ModRootA)
    \/ \E name \in AliasKeys : \E area \in {Frontend, Base} : AddComponentMap(name, y, area)
    \/ AddComponentPath(x, A_b_c, Base)
    \/ \E path \in ComponentFiles : CreateFile(path)
    \/ \E text \in RawIds : \E path \in EditPaths : TextToComponent(text, path)
    \/ \E text \in ResolvedIds : \E path \in EditPaths : ResolvedTextToComponent(text, path)

SpecJs == InitJs /\ [][NextJs]_vars

\* <dir>/<id>.js, as the components of a path
RelTarget(dir, id) ==
    dir \o SelectSeq(Split(id \o <<".">> \o s_js, "/"), LAMBDA c : c # <<>> /\ c # <<".">>)

\* C15: an id that starts with '.' is classified as RelComponent(id,
\* directory of the file being edited) and find_rel locates it at
\* <that directory>/<id>.js (when that file exists, and nowhere else),
\* whatever modules are registered and wherever the file being edited lies.
C15_RelativeIdResolution ==
    (query.op = "text_to_component" /\ query.text[1] = ".") =>
        LET dir == pop(query.path)
            target == RelTarget(dir, query.text)
        IN  /\ query.result = Some(<<"RelComponent", query.text, dir>>)
            /\ query.location = IF is_file(disk, target) THEN Some(<<target>>) ELSE None

\* path substitution, alias resolution and classification of an id that has
\* no plugin prefix to strip
ResolveAndClassify(s, rest, path) ==
    LET pathed == resolve_paths(s, rest, get_area(path))
        mapped == IF pathed.tag = "Some" THEN resolve_maps(s, pathed.val, get_area(path))
                  ELSE pathed
    IN  IF mapped.tag = "Some" THEN resolved_text_to_component(s, mapped.val, path)
        ELSE mapped

IsModuleId(text) ==
    LET segments == Split(text, "/")
    IN  /\ Len(segments) > 1
        /\ Cardinality({i \in 1..Len(segments[1]) : segments[1][i] = "_"}) = 1
        /\ Len(segments[1]) > 0
        /\ segments[1][1] \in UppercaseLetters

\* the text after the first '/'
AfterFirstSegment(text) ==
    SubSeq(text, Len(Split(text, "/")[1]) + 2, Len(text))

\* C17 as stated: a resolved id that neither ends in .html nor starts with
\* '.' is classified as a module component (first segment, rest of the id)
\* exactly when it passes the module test, and as a library Component
\* carrying the id otherwise.
C17_IdClassification ==
    (/\ query.op = "resolved_text_to_component"
     /\ ~EndsWith(query.text, dot_html)
     /\ FirstCharOr(query.text, "a") # ".") =>
        LET r == query.result
            module == /\ r.tag = "Some"
                      /\ r.val[1] = "ModComponent"
                      /\ r.val[2] = Split(query.text, "/")[1]
                      /\ r.val[3] = AfterFirstSegment(query.text)
        IN  /\ module <=> IsModuleId(query.text)
            /\ ~IsModuleId(query.text) => r = Some(<<"Component", query.text>>)

\* C17 amended: an id that passes the module test is the module component
\* (first segment, rest of the id, root of the module) when its first
\* segment is a registered module name, and no item when it is not; every
\* other id is a library Component carrying the id unchanged.
C17_IdClassificationRegistered ==
    (/\ query.op = "resolved_text_to_component"
     /\ ~EndsWith(query.text, dot_html)
     /\ FirstCharOr(query.text, "a") # ".") =>
        LET first == Split(query.text, "/")[1]
        IN  query.result =
                IF IsModuleId(query.text)
                THEN IF first \in DOMAIN state.module_paths
                     THEN Some(<<"ModComponent", first, AfterFirstSegment(query.text),
                                 state.module_paths[first]>>)
                     ELSE None
                ELSE Some(<<"Component", query.text>>)

\* C17 witness: A_b/c has been classified as a component of the registered
\* module A_b
C17_Witness ==
    /\ query.op = "resolved_text_to_component"
    /\ query.text = A_b_c
    /\ A_b \in DOMAIN state.module_paths
    /\ query.result = Some(<<"ModComponent", A_b, <<"c">>, state.module_paths[A_b]>>)

(***************************************************************************)
(* SpecMixins: mixins of a module component.  Module A_b is registered,    *)
(* mixins are registered for the component A_b/c under an area             *)
(* (add_component_mixin), an alias of A_b/c may be registered, component   *)
(* files come to exist, and the definition of A_b/c is asked for from a    *)
(* file of the frontend, of the adminhtml or of no area (mod_location).    *)
(***************************************************************************)
MaxMixins == 2      \* mixins registered under one key of one area

s_c_js == <<"c", ".", "j", "s">>
s_d_js == <<"d", ".", "j", "s">>
A_b_d == <<"A", "_", "b", "/", "d">>

EditAdmin == <<s_w, s_view, s_adminhtml, s_m_js>>
MixinEditPaths == {EditInModule, EditAdmin, EditOutside}

WebFile(area, name) == <<s_w, s_view, area, s_web, name>>
WebFiles ==
    {WebFile(s_frontend, s_c_js), WebFile(s_base, s_c_js),
     WebFile(s_frontend, s_d_js), WebFile(s_adminhtml, s_d_js), WebFile(s_base, s_d_js)}

AddComponentMixin(name, val, area) ==
    /\ alive
    /\ Len(get_component_mixins_for_area(state, name, area)) < MaxMixins
    /\ Commit(add_component_mixin(state, name, val, area))
    /\ query' = NoQuery
    /\ UNCHANGED <<hash_order, lock, control, jobs, spawned, disk, documents, registrations>>

\* the definition of the component A_b/c at the cursor of the file path
ModLocation(mod_name, file_path, path) ==
    /\ query = NoQuery
    /\ mod_name \in DOMAIN state.module_paths
    /\ query' = [op |-> "mod_location", mod_name |-> mod_name, file_path |-> file_path,
                 path |-> path,
                 result |-> mod_location(state, disk, mod_name, file_path,
                                         state.module_paths[mod_name], path)]
    /\ UNCHANGED <<state, alive, hash_order, lock, control, jobs, spawned, disk, documents, registrations>>

NextMixins ==
    \/ AddModulePath(A_b, ModRootA)
    \/ \E val \in {A_b_d, x} : \E area \in {Frontend, Base} :
           AddComponentMixin(A_b_c, val, area)
    \/ AddComponentMap(A_b_c, x, Base)
    \/ \E path \in WebFiles : CreateFile(path)
    \/ \E path \in MixinEditPaths : ModLocation(A_b, <<"c">>, path)
    \/ \E area \in M2Area : ResolveMaps(A_b_c, area)

SpecMixins == InitMaps /\ [][NextMixins]_vars

\* the files of a component that exist, in the order of the view directories
\* of the area; a mixin that is no module component has no file in a module
ComponentLocations(component, area) ==
    IF component[1] = "ModComponent"
    THEN LET areas == path_candidates(area)
             files == [i \in 1..Len(areas) |->
                          component[4] \o <<s_view, areas[i], s_web,
                                             component[3] \o <<".">> \o s_js>>]
         IN  SelectSeq(files, LAMBDA f : f \in DOMAIN disk)
    ELSE <<>>

\* C18: mod_location for the component Module/path met in a file of area A
\* returns the locations of the component itself first and then, in the
\* order of registration, the locations of the mixins registered for the key
\* Module/path under area A; the mixins registered under another area (Base
\* included, when A is Frontend or Adminhtml) add nothing; and the result of
\* resolve_maps is the one obtained with no mixin registered at all.
C18_MixinsAreASideQuery ==
    /\ query.op = "mod_location" =>
           LET area == get_area(query.path)
               key == query.mod_name \o <<"/">> \o query.file_path
               mixins == IF key \in DOMAIN state.js_mixins[area]
                         THEN state.js_mixins[area][key] ELSE <<>>
               base == <<"ModComponent", query.mod_name, query.file_path,
                         state.module_paths[query.mod_name]>>
           IN  query.result =
                   ComponentLocations(base, area)
                       \o Flatten([i \in 1..Len(mixins) |-> ComponentLocations(mixins[i], area)])
    /\ query.op = "resolve_maps" =>
           query.result = resolve_maps([state EXCEPT !.js_mixins = AreaMaps],
                                       query.text, query.area)

\* C18 witness: A_b/c has a mixin A_b/d under Frontend and mixins under Base;
\* asked from a frontend file, mod_location has returned the two files of
\* A_b/c and then the two files of the Frontend mixin, and nothing for the
\* Base mixins
C18_Witness ==
    /\ query.op = "mod_location"
    /\ query.path = EditInModule
    /\ A_b_c \in DOMAIN state.js_mixins[Frontend]
    /\ Len(state.js_mixins[Frontend][A_b_c]) = 1
    /\ A_b_c \in DOMAIN state.js_mixins[Base]
    /\ Len(state.js_mixins[Base][A_b_c]) = 2
    /\ query.result = <<WebFile(s_frontend, s_c_js), WebFile(s_base, s_c_js),
                        WebFile(s_frontend, s_d_js), WebFile(s_base, s_d_js)>>

(***************************************************************************)
(* SpecThemes: template resolution by area.  A module, front themes and an *)
(* admin theme are registered, template files come to exist, and a         *)
(* template id of the module is resolved for the adminhtml (find_admin),   *)
(* for the frontend (find_front) or for no area (find_base).               *)
(***************************************************************************)
AdminThemeRoot == <<s_w, s_app, s_design, s_adminhtml, s_A, s_t>>

ThemeTemplateFiles ==
    TemplateFiles \cup {append(AdminThemeRoot, <<A_b, s_templates, p_phtml>>)}

InitThemes ==
    /\ state = NewState
    /\ alive = TRUE
    /\ hash_order \in Perms(ThemeNames \cup {AdminT})
    /\ lock = NoThread
    /\ control = Idle
    /\ jobs = <<>>
    /\ spawned = <<>>
    /\ query = NoQuery
    /\ disk = EmptyMap
    /\ documents = EmptyMap
    /\ registrations = <<>>

AddAdminThemePath(name, path) ==
    /\ state' = add_admin_theme_path(state, name, path)
    /\ query' = NoQuery
    /\ UNCHANGED <<alive, hash_order, lock, control, jobs, spawned, disk, documents, registrations>>

FindAdmin(mod_name, template) ==
    /\ query = NoQuery
    /\ query' = [op |-> "find_admin", mod_name |-> mod_name, template |-> template,
                 result |-> find_admin(state, disk, mod_name, template)]
    /\ UNCHANGED <<state, alive, hash_order, lock, control, jobs, spawned, disk, documents, registrations>>

FindBase(mod_name, template) ==
    /\ query = NoQuery
    /\ query' = [op |-> "find_base", mod_name |-> mod_name, template |-> template,
                 result |-> find_base(state, disk, mod_name, template)]
    /\ UNCHANGED <<state, alive, hash_order, lock, control, jobs, spawned, disk, documents, registrations>>

NextThemes ==
    \/ AddModulePath(A_b, ModRootA)
    \/ \E name \in ThemeNames : AddFrontThemePath(name, ThemeRoot(name))
    \/ AddAdminThemePath(AdminT, AdminThemeRoot)
    \/ \E path \in ThemeTemplateFiles : CreateFile(path)
    \/ FindAdmin(A_b, p_phtml)
    \/ FindFront(A_b, p_phtml)
    \/ FindBase(A_b, p_phtml)

SpecThemes == InitThemes /\ [][NextThemes]_vars

\* the module directories and the theme kinds each query may consult
QueryAreas(op) ==
    CASE op = "find_admin" -> <<s_adminhtml, s_base>>
      [] op = "find_front" -> <<s_frontend, s_base>>
      [] op = "find_base" -> <<s_frontend, s_adminhtml, s_base>>
QueryFrontThemes(op) == op \in {"find_front", "find_base"}
QueryAdminThemes(op) == op \in {"find_admin", "find_base"}

\* the template under a theme root
ThemeFile(root, q) == root \o <<q.mod_name, s_templates, q.template>>
FrontThemeFiles(q) == {ThemeFile(state.front_themes[n], q) : n \in DOMAIN state.front_themes}
AdminThemeFiles(q) == {ThemeFile(state.admin_themes[n], q) : n \in DOMAIN state.admin_themes}

\* the module's templates that exist, in the order of the query's directories
ModuleTemplates(q) ==
    IF q.mod_name \in DOMAIN state.module_paths
    THEN SelectSeq([i \in 1..Len(QueryAreas(q.op)) |-> ModCandidate(q, QueryAreas(q.op)[i])],
                   LAMBDA f : f \in DOMAIN disk)
    ELSE <<>>

UnderRoot(f, root) == Len(root) <= Len(f) /\ SubSeq(f, 1, Len(root)) = root

\* C19: the result of find_admin, find_front and find_base starts with the
\* module's existing templates of the directories [adminhtml, base],
\* [frontend, base] and [frontend, adminhtml, base]; the rest holds, once
\* each, the existing templates of the admin themes (find_admin), of the
\* front themes (find_front), of the front themes and then of the admin
\* themes (find_base), and nothing else; no result of find_admin lies under
\* a front theme root and no result of find_front under an admin theme root.
C19_ThemeKindMatching ==
    query.op \in {"find_admin", "find_front", "find_base"} =>
        LET r == query.result
            m == ModuleTemplates(query)
            rest == SubSeq(r, Len(m) + 1, Len(r))
            front == IF QueryFrontThemes(query.op)
                     THEN {f \in FrontThemeFiles(query) : f \in DOMAIN disk} ELSE {}
            admin == IF QueryAdminThemes(query.op)
                     THEN {f \in AdminThemeFiles(query) : f \in DOMAIN disk} ELSE {}
        IN  /\ Len(m) <= Len(r)
            /\ SubSeq(r, 1, Len(m)) = m
            /\ {rest[i] : i \in 1..Len(rest)} = front \cup admin
            /\ Len(rest) = Cardinality(front \cup admin)
            /\ \A i, j \in 1..Len(rest) : (rest[i] \in front /\ rest[j] \in admin) => i < j
            /\ query.op = "find_admin" =>
                   \A i \in 1..Len(r) : \A n \in DOMAIN state.front_themes :
                       ~UnderRoot(r[i], state.front_themes[n])
            /\ query.op = "find_front" =>
                   \A i \in 1..Len(r) : \A n \in DOMAIN state.admin_themes :
                       ~UnderRoot(r[i], state.admin_themes[n])

\* C19 witness: with the module's three templates, a front theme override
\* and an admin theme override on disk and all themes registered, find_admin
\* has returned the adminhtml and base templates of the module and the
\* admin theme override, and no more
C19_Witness ==
    /\ query.op = "find_admin"
    /\ ThemeTemplateFiles \subseteq DOMAIN disk
    /\ DOMAIN state.front_themes = ThemeNames
    /\ AdminT \in DOMAIN state.admin_themes
    /\ A_b \in DOMAIN state.module_paths
    /\ query.result = <<ModCandidate(query, s_adminhtml), ModCandidate(query, s_base),
                        ThemeFile(AdminThemeRoot, query)>>

(***************************************************************************)
(* lsp/definition/php.rs, php.rs: definition of a class, a method or a     *)
(* constant.  The content of a class file is the sequence of matches the   *)
(* query of parse_php_file yields on it, a match being <<kind, name,       *)
(* range>> with kind "namespace", "class", "method" or "const".            *)
(***************************************************************************)
\* php::parse_php_file: Option<PHPClass>; the read of a file that is absent
\* or unreadable panics.  Of the namespace and class matches the last is
\* kept; methods and constants are HashMaps name -> range, a later match of
\* a name replacing an earlier one, and a match with an empty name skipped.
parse_php_file(d, file_path) ==
    IF file_path \notin DOMAIN d \/ ~d[file_path].readable THEN Aborted
    ELSE LET content == d[file_path].content
             LastOfKind(kind) ==
                 LET found == SelectSeq(content, LAMBDA m : m[1] = kind)
                 IN  IF Len(found) = 0 THEN None ELSE Some(found[Len(found)])
             MembersOfKind(kind) ==
                 LET found == SelectSeq(content, LAMBDA m : m[1] = kind /\ Len(m[2]) > 0)
                     names == {found[i][2] : i \in 1..Len(found)}
                 IN  [n \in names |->
                         found[Max({i \in 1..Len(found) : found[i][2] = n})][3]]
             ns == LastOfKind("namespace")
             cls == LastOfKind("class")
         IN  IF ns.tag = "None" \/ cls.tag = "None" THEN None
             ELSE IF ns.val[2] \o <<"\\">> \o cls.val[2] = <<"\\">> THEN None
             ELSE Some([fqn |-> ns.val[2] \o <<"\\">> \o cls.val[2],
                        uri |-> file_path,
                        range |-> cls.val[3],
                        methods |-> MembersOfKind("method"),
                        constants |-> MembersOfKind("const")])

\* a lookup that parses the computed file without testing that it exists
get_php_class_unchecked(s, d, class) ==
    LET file_path == class_file_path(s, class)
    IN  IF file_path.tag = "None" THEN None
        ELSE parse_php_file(d, file_path.val)

\* get_php_class_from_class_name
get_php_class_from_class_name(s, d, class) ==
    LET file_path == class_file_path(s, class)
    IN  IF file_path.tag = "None" THEN None
        ELSE IF is_file(d, file_path.val) THEN parse_php_file(d, file_path.val)
        ELSE None

find_class(s, d, class) ==
    LET phpclass == get_php_class_from_class_name(s, d, class)
    IN  IF IsAborted(phpclass) \/ phpclass.tag = "None" THEN phpclass
        ELSE Some([uri |-> phpclass.val.uri, range |-> phpclass.val.range])

find_method(s, d, class, method) ==
    LET phpclass == get_php_class_from_class_name(s, d, class)
    IN  IF IsAborted(phpclass) \/ phpclass.tag = "None" THEN phpclass
        ELSE Some([uri |-> phpclass.val.uri,
                   range |-> IF method \in DOMAIN phpclass.val.methods
                             THEN phpclass.val.methods[method]
                             ELSE phpclass.val.range])

find_const(s, d, class, constant) ==
    LET phpclass == get_php_class_from_class_name(s, d, class)
    IN  IF IsAborted(phpclass) \/ phpclass.tag = "None" THEN phpclass
        ELSE Some([uri |-> phpclass.val.uri,
                   range |-> IF constant \in DOMAIN phpclass.val.constants
                             THEN phpclass.val.constants[constant]
                             ELSE phpclass.val.range])

(***************************************************************************)
(* SpecFind: modules are registered, class files come to exist (with a     *)
(* class, without one, or unreadable) and the definition of a class, of    *)
(* one of its methods or of one of its constants is asked for.             *)
(***************************************************************************)
s_B == <<"B">>
s_m == <<"m">>
s_k == <<"k">>
s_A_php == <<"A", ".", "p", "h", "p">>
s_B_php == <<"B", ".", "p", "h", "p">>

FindModules == {s_A, A_B}
FindClasses == {s_B, A_B, A_B_A}
FindMembers == {s_m, s_k}
FindOps == {"find_class", "find_method", "find_const"}

ClassFiles ==
    {ModRoot(s_A) \o <<s_B_php>>, ModRoot(s_A) \o <<s_B, s_A_php>>, ModRoot(A_B) \o <<s_A_php>>}

ClassFileStates ==
    {File(<<>>),
     File(<<<<"namespace", A_B, 0>>, <<"class", s_A, 1>>, <<"method", s_m, 2>>,
            <<"const", s_k, 3>>>>),
     Unreadable}

\* the environment writes a class file
WriteClassFile(path, file) ==
    /\ alive
    /\ path \notin DOMAIN disk
    /\ disk' = MapInsert(disk, path, file)
    /\ query' = NoQuery
    /\ UNCHANGED <<state, alive, hash_order, lock, control, jobs, spawned, documents, registrations>>

\* a definition request; a panic ends the process
FindDefinition(op, class, member) ==
    /\ alive
    /\ query = NoQuery
    /\ LET result == CASE op = "find_class" -> find_class(state, disk, class)
                       [] op = "find_method" -> find_method(state, disk, class, member)
                       [] op = "find_const" -> find_const(state, disk, class, member)
       IN  /\ query' = [op |-> op, class |-> class, member |-> member, result |-> result]
           /\ alive' = ~IsAborted(result)
    /\ UNCHANGED <<state, hash_order, lock, control, jobs, spawned, disk, documents, registrations>>

NextFind ==
    \/ \E module \in FindModules : alive /\ AddModulePath(module, ModRoot(module))
    \/ \E path \in ClassFiles : \E file \in ClassFileStates : WriteClassFile(path, file)
    \/ \E op \in FindOps : \E class \in FindClasses : \E member \in FindMembers :
           FindDefinition(op, class, member)

SpecFind == InitMaps /\ [][NextFind]_vars

\* the proper segment-prefixes of a class identifier that are module names
RegisteredPrefixes(s, class) ==
    LET parts == Split(class, "\\")
    IN  {k \in 0..(Len(parts) - 1) : Join(SubSeq(parts, 1, k), "\\") \in DOMAIN s.module_paths}

\* <module root>/<suffix segments>.php for the longest registered prefix
ComputedClassFile(s, class) ==
    LET parts == Split(class, "\\")
        k == Max(RegisteredPrefixes(s, class))
        suffix == SubSeq(parts, k + 1, Len(parts))
    IN  s.module_paths[Join(SubSeq(parts, 1, k), "\\")]
            \o SubSeq(suffix, 1, Len(suffix) - 1)
            \o <<suffix[Len(suffix)] \o <<".">> \o s_php>>

\* C20: a request to find_class, find_method or find_const for a class
\* identifier of which no proper segment-prefix is a registered module name,
\* or whose computed file <module root>/<suffix segments>.php does not
\* exist, returns no location, does not panic and leaves the index as it is.
C20_ClassMissIsAValue ==
    [][(/\ alive
        /\ query = NoQuery
        /\ query'.op \in FindOps
        /\ \/ RegisteredPrefixes(state, query'.class) = {}
           \/ ComputedClassFile(state, query'.class) \notin DOMAIN disk) =>
           /\ query'.result = None
           /\ alive'
           /\ state' = state]_vars

\* C20 witness: with module A registered, A/B.php written and A/B/A.php
\* absent, the method m of A\B\A has been asked for and no location returned
C20_Witness ==
    /\ alive
    /\ query.op = "find_method"
    /\ query.class = A_B_A
    /\ DOMAIN state.module_paths = {s_A}
    /\ ModRoot(s_A) \o <<s_B, s_A_php>> \notin DOMAIN disk
    /\ ModRoot(s_A) \o <<s_B_php>> \in DOMAIN disk
    /\ query.result = None

(***************************************************************************)
(* SpecModules: registration of module paths.  A registration file is the  *)
(* source of add_module_path calls, and the facts of a registration file   *)
(* are retracted (clear_from_source); registrations remembers the calls in *)
(* order and which of them were retracted with their source.               *)
(***************************************************************************)
MaxRegs == 3        \* add_module_path calls

RegSources == {RegA, RegB}
RegNames == {A_b, s_A}
RegRoots == {W, ModB}

\* add_module_path while the source file is set
RegisterModulePath(source, name, path) ==
    /\ alive
    /\ Len(registrations) < MaxRegs
    /\ state' = add_module_path(set_source_file(state, source), name, path)
    /\ registrations' = Append(registrations,
                               [name |-> name, path |-> path, source |-> source,
                                retracted |-> FALSE])
    /\ UNCHANGED <<alive, hash_order, lock, control, jobs, spawned, query, disk, documents>>

\* the facts of a source file are retracted
RetractSource(source) ==
    /\ alive
    /\ Commit(clear_from_source(state, source))
    /\ registrations' = [i \in 1..Len(registrations) |->
                            IF registrations[i].source = source
                            THEN [registrations[i] EXCEPT !.retracted = TRUE]
                            ELSE registrations[i]]
    /\ UNCHANGED <<hash_order, lock, control, jobs, spawned, query, disk, documents>>

NextModules ==
    \/ \E source \in RegSources : \E name \in RegNames : \E path \in RegRoots :
           RegisterModulePath(source, name, path)
    \/ \E source \in RegSources : RetractSource(source)

SpecModules == InitMaps /\ [][NextModules]_vars

\* the add_module_path calls of a name that were not retracted
LiveRegistrations(name) ==
    {i \in 1..Len(registrations) :
        registrations[i].name = name /\ ~registrations[i].retracted}

\* C21: each module name maps to at most one path, and get_module_path(name)
\* is the path of the most recent add_module_path(name, _) that has not been
\* retracted (no path when there is none), a later registration of the name
\* replacing an earlier one.
C21_LastWriteWins ==
    \A name \in RegNames :
        get_module_path(state, name) =
            IF LiveRegistrations(name) = {} THEN None
            ELSE Some(registrations[Max(LiveRegistrations(name))].path)

(***************************************************************************)
(* SpecScanFair: the scan of one workspace root under fair scheduling.     *)
(* Every thread that can take a step eventually takes it, and a thread     *)
(* that waits for the mutex gets it when the mutex is free again and       *)
(* again.                                                                  *)
(***************************************************************************)
JobIds == {1, 2}

\* the steps of job i; JsLock and PhpInsert wait for the lock
JobStep(i) ==
    /\ i \in DOMAIN jobs
    /\ \/ JobGlob(i) \/ JobDone(i) \/ JsRead(i) \/ PhpRead(i) \/ PhpParse(i) \/ JsIndex(i)
       \/ JsLock(i) \/ PhpInsert(i)

\* the steps of the control thread inside a request
ControlStep ==
    \/ UpdateIndexRegister
    \/ \E exists \in BOOLEAN : FindClassExists(exists)
    \/ \E parsed \in BOOLEAN : FindClassParse(parsed)

\* the scan with one call of update_index
NextScanOnce ==
    \/ \E path \in Roots : Len(spawned) = 0 /\ UpdateIndexLock(path)
    \/ ControlStep
    \/ \E class \in ClassNames : FindClassLock(class)
    \/ \E i \in JobIds : JobStep(i)

SpecScanFair ==
    /\ InitScan
    /\ [][NextScanOnce]_vars
    /\ WF_vars(ControlStep)
    /\ \A i \in JobIds : SF_vars(JobStep(i))

\* C22: every job that update_index spawned eventually finishes: it reaches
\* the end of its patterns, whatever the control thread does meanwhile.
C22_ScanRunsToCompletion ==
    \A i \in JobIds :
        (i \in DOMAIN jobs) ~> (i \in DOMAIN jobs /\ jobs[i].pc = "done")

(***************************************************************************)
(* state.rs, js.rs, xml.rs: the item at a position of an open document.    *)
(* The content of a JS document is the sequence of the strings the query   *)
(* js_item_from_pos captures, <<"define", text, position>>.  The content   *)
(* of an XML document is the sequence of its tags, a tag being a record    *)
(* of its name, its attributes <<name, value>> in document order and its   *)
(* text; a position in it is <<tag, part>>: part 0 is the tag itself,      *)
(* part k the value of the k-th attribute, the part after the attributes   *)
(* the text.                                                               *)
(***************************************************************************)
\* str::trim_matches('\\')
RECURSIVE trim_backslashes(_)
trim_backslashes(text) ==
    IF Len(text) = 0 THEN text
    ELSE IF Head(text) = "\\" THEN trim_backslashes(Tail(text))
    ELSE IF text[Len(text)] = "\\" THEN trim_backslashes(SubSeq(text, 1, Len(text) - 1))
    ELSE text

\* M2Path::get_ext: the extension in lowercase, "" when there is none
get_ext(path) ==
    LET ext == extension(path)
    IN  IF ext.tag = "None" THEN <<>>
        ELSE [i \in 1..Len(ext.val) |-> ToLower(ext.val[i])]

\* js::get_item_from_pos: the first captured string at the position
js_get_item_from_pos(s, content, path, pos) ==
    LET at_pos == SelectSeq(content, LAMBDA m : m[1] = "define" /\ m[3] = pos)
    IN  IF Len(at_pos) = 0 THEN None
        ELSE text_to_component(s, at_pos[1][2], path)

\* js::get_item_from_position
js_get_item_from_position(s, path, pos) ==
    LET content == get_file(s, path)
    IN  IF content.tag = "None" THEN None
        ELSE js_get_item_from_pos(s, content.val, path, pos)

\* the HashMap of the attributes of a tag: a later attribute of the same
\* name replaces an earlier one; get_node_str trims the backslashes
RECURSIVE tag_attributes(_, _)
tag_attributes(map, attrs) ==
    IF Len(attrs) = 0 THEN map
    ELSE tag_attributes(MapInsert(map, Head(attrs)[1], trim_backslashes(Head(attrs)[2])),
                        Tail(attrs))

XmlPartNone == [part |-> "None"]
XmlPartText == [part |-> "Text"]
XmlPartAttribute(name) == [part |-> "Attribute", name |-> name]

\* xml::get_xml_tag_at_pos: Option<XmlTag>
get_xml_tag_at_pos(content, pos) ==
    IF pos[1] \notin DOMAIN content THEN None
    ELSE LET node == content[pos[1]]
         IN  IF Len(node.name) = 0 THEN None
             ELSE Some([name |-> node.name,
                        attributes |-> tag_attributes(EmptyMap, node.attributes),
                        text |-> trim_backslashes(node.text),
                        hover_on |->
                            IF pos[2] \in 1..Len(node.attributes)
                            THEN XmlPartAttribute(node.attributes[pos[2]][1])
                            ELSE IF pos[2] = Len(node.attributes) + 1 /\ Len(node.text) > 0
                            THEN XmlPartText
                            ELSE XmlPartNone])

s_method == <<"m", "e", "t", "h", "o", "d">>
s_instance == <<"i", "n", "s", "t", "a", "n", "c", "e">>
s_class == <<"c", "l", "a", "s", "s">>
s_template == <<"t", "e", "m", "p", "l", "a", "t", "e">>
s_name == <<"n", "a", "m", "e">>
s_component == <<"c", "o", "m", "p", "o", "n", "e", "n", "t">>
s_xsi_type == <<"x", "s", "i", ":", "t", "y", "p", "e">>
s_object == <<"o", "b", "j", "e", "c", "t">>
s_init_parameter == <<"i", "n", "i", "t", "_", "p", "a", "r", "a", "m", "e", "t", "e", "r">>
s_string == <<"s", "t", "r", "i", "n", "g">>
s_phtml == <<"p", "h", "t", "m", "l">>
s_xml == <<"x", "m", "l">>

\* a method reference that prefers the class attribute to the instance
try_method_item_class_first(tag) ==
    IF s_class \in DOMAIN tag.attributes /\ s_method \in DOMAIN tag.attributes
    THEN Some(<<"Method", tag.attributes[s_class], tag.attributes[s_method]>>)
    ELSE IF s_instance \in DOMAIN tag.attributes /\ s_method \in DOMAIN tag.attributes
    THEN Some(<<"Method", tag.attributes[s_instance], tag.attributes[s_method]>>)
    ELSE None

\* xml::try_method_item_from_tag
try_method_item_from_tag(tag) ==
    IF s_instance \in DOMAIN tag.attributes /\ s_method \in DOMAIN tag.attributes
    THEN Some(<<"Method", tag.attributes[s_instance], tag.attributes[s_method]>>)
    ELSE IF s_class \in DOMAIN tag.attributes /\ s_method \in DOMAIN tag.attributes
    THEN Some(<<"Method", tag.attributes[s_class], tag.attributes[s_method]>>)
    ELSE None

\* m2::get_class_item_from_str
get_class_item_from_str(text) == <<"Class", trim_backslashes(text)>>

\* m2::try_const_item_from_str: Class::CONSTANT
try_const_item_from_str(text) ==
    LET at == Find(text, <<":", ":">>)
    IN  IF at = 0 THEN None
        ELSE Some(<<"Const", trim_backslashes(SubSeq(text, 1, at - 1)),
                    SubSeq(text, at + 2, Len(text))>>)

\* m2::try_phtml_item_from_str: Module::path.phtml, by the area of the file
try_phtml_item_from_str(text, area) ==
    LET at == Find(text, <<":", ":">>)
        kind == CASE area = Frontend -> "FrontPhtml"
                  [] area = Adminhtml -> "AdminPhtml"
                  [] OTHER -> "BasePhtml"
    IN  IF at = 0 \/ ~EndsWith(text, <<".">> \o s_phtml) THEN None
        ELSE Some(<<kind, SubSeq(text, 1, at - 1), SubSeq(text, at + 2, Len(text))>>)

\* m2::try_any_item_from_str: a template, a constant, a class name (it
\* starts with an uppercase letter), or nothing
try_any_item_from_str(text, area) ==
    IF EndsWith(text, <<".">> \o s_phtml) THEN try_phtml_item_from_str(text, area)
    ELSE IF Find(text, <<":", ":">>) # 0 THEN try_const_item_from_str(text)
    ELSE IF Len(text) > 0 /\ text[1] \in UppercaseLetters
    THEN Some(get_class_item_from_str(text))
    ELSE None

\* xml::get_item_from_pos
xml_get_item_from_pos(s, content, path, pos) ==
    LET found == get_xml_tag_at_pos(content, pos)
    IN  IF found.tag = "None" THEN None
        ELSE LET tag == found.val
                 area == get_area(path)
             IN  CASE tag.hover_on.part = "Attribute" ->
                        LET attr_name == tag.hover_on.name
                            value == tag.attributes[attr_name]
                        IN  IF attr_name \in {s_method, s_instance, s_class}
                            THEN IF try_method_item_from_tag(tag).tag = "Some"
                                 THEN try_method_item_from_tag(tag)
                                 ELSE try_any_item_from_str(value, area)
                            ELSE IF attr_name = s_template
                            THEN try_phtml_item_from_str(value, area)
                            ELSE try_any_item_from_str(value, area)
                    [] tag.hover_on.part = "Text" ->
                        LET text == trim_backslashes(tag.text)
                            xsi_type == IF s_xsi_type \in DOMAIN tag.attributes
                                        THEN tag.attributes[s_xsi_type] ELSE <<>>
                        IN  CASE xsi_type = s_object -> Some(get_class_item_from_str(text))
                              [] xsi_type = s_init_parameter -> try_const_item_from_str(text)
                              [] xsi_type = s_string
                                     /\ s_name \in DOMAIN tag.attributes
                                     /\ tag.attributes[s_name] = s_component ->
                                    text_to_component(s, text, path)
                              [] OTHER -> try_any_item_from_str(text, area)
                    [] OTHER -> None

\* xml::get_item_from_position
xml_get_item_from_position(s, path, pos) ==
    LET content == get_file(s, path)
    IN  IF content.tag = "None" THEN None
        ELSE xml_get_item_from_pos(s, content.val, path, pos)

\* a dispatch that does not look at the extension of the path
get_item_from_position_any_ext(s, path, pos) ==
    IF get_ext(path) = s_js THEN js_get_item_from_position(s, path, pos)
    ELSE xml_get_item_from_position(s, path, pos)

\* State::get_item_from_position
get_item_from_position(s, path, pos) ==
    CASE get_ext(path) = s_js -> js_get_item_from_position(s, path, pos)
      [] get_ext(path) = s_xml -> xml_get_item_from_position(s, path, pos)
      [] OTHER -> None

\* lsp::definition_handler and lsp::completion_handler: map_or(vec![], ..)
handler_response(result) == IF result.tag = "Some" THEN result.val ELSE <<>>

(***************************************************************************)
(* SpecItems: the item at a position.  The editor opens, changes and       *)
(* closes a JS document, an XML document and a template, module A_b may be *)
(* registered, and the item at a position of a document is asked for       *)
(* (State::get_item_from_position, then the handler's response).           *)
(***************************************************************************)
s_metHod == <<"m", "e", "t", "H", "o", "d">>
s_something == <<"s", "o", "m", "e", "t", "h", "i", "n", "g">>
bs_A_B_bs == <<"\\", "A", "\\", "B", "\\">>
A_b_t_phtml == <<"A", "_", "b", ":", ":", "t", ".", "p", "h", "t", "m", "l">>

XmlDoc == <<s_w, <<"d", ".", "x", "m", "l">>>>
PhtmlDoc == <<s_w, <<"t", ".", "p", "h", "t", "m", "l">>>>
ItemDocs == {EditInModule, XmlDoc, PhtmlDoc}

Tag(name, attributes, text) == [name |-> name, attributes |-> attributes, text |-> text]

\* <job instance="\A\B\" method="metHod">, <service class="A\B" method=..>,
\* a tag with instance, class and method, <service something="\A\B\"
\* method="metHod">xx</service>, a tag with method and nothing else that
\* names a class, <block template="A_b::t.phtml">, <item xsi:type="object">
XmlTags ==
    <<Tag(<<"j">>, <<<<s_instance, bs_A_B_bs>>, <<s_method, s_metHod>>>>, <<>>),
      Tag(<<"s">>, <<<<s_class, A_B>>, <<s_method, s_metHod>>>>, <<>>),
      Tag(<<"s">>, <<<<s_class, A_B_A>>, <<s_method, s_metHod>>, <<s_instance, A_B>>>>, <<>>),
      Tag(<<"s">>, <<<<s_something, bs_A_B_bs>>, <<s_method, s_metHod>>>>, <<"x", "x">>),
      Tag(<<"s">>, <<<<s_method, s_metHod>>, <<s_name, x>>>>, <<>>),
      Tag(<<"b">>, <<<<s_template, A_b_t_phtml>>>>, <<>>),
      Tag(<<"i">>, <<<<s_xsi_type, s_object>>>>, A_B)>>

ItemContents(path) ==
    IF path = EditInModule
    THEN {<<<<"define", x, <<1, 1>>>>>>, <<<<"define", A_b_c, <<1, 1>>>>>>}
    ELSE {<<>>, XmlTags}

Positions == (1..Len(XmlTags)) \X (0..3)

\* a definition request at a position of a document
GetItemFromPosition(path, pos) ==
    /\ alive
    /\ query = NoQuery
    /\ query' = [op |-> "get_item_from_position", path |-> path, pos |-> pos,
                 result |-> get_item_from_position(state, path, pos),
                 response |-> handler_response(get_item_from_position(state, path, pos))]
    /\ UNCHANGED <<state, alive, hash_order, lock, control, jobs, spawned, disk, documents, registrations>>

NextItems ==
    \/ \E path \in ItemDocs : \E content \in ItemContents(path) :
           query = NoQuery /\ OpenOrChange(path, content)
    \/ \E path \in ItemDocs : query = NoQuery /\ Close(path)
    \/ alive /\ AddModulePath(A_b, ModRootA)
    \/ \E path \in ItemDocs : \E pos \in Positions : GetItemFromPosition(path, pos)

SpecItems == InitMaps /\ [][NextItems]_vars

\* the path was never opened, or was closed after its last open or change
NotBuffered(path) == path \notin DOMAIN documents \/ ~documents[path].open

\* the file name ends in .js or .xml
JsOrXml(path) ==
    \/ EndsWith(path[Len(path)], <<".", "j", "s">>)
    \/ EndsWith(path[Len(path)], <<".", "x", "m", "l">>)

\* C23: get_item_from_position for a path that has no buffered content
\* (never opened, or closed) or whose extension is neither js nor xml
\* returns no item, the handler's response is the empty list, the process
\* goes on and the state is as before.
C23_UnresolvedIsEmpty ==
    [][(/\ alive
        /\ query = NoQuery
        /\ query'.op = "get_item_from_position"
        /\ NotBuffered(query'.path) \/ ~JsOrXml(query'.path)) =>
           /\ query'.result = None
           /\ query'.response = <<>>
           /\ alive'
           /\ state' = state]_vars

\* C23 witness: the XML document was opened with its tags and closed, the
\* template is open with the same text, and the item at the instance
\* attribute of the first tag has been asked for in the closed document
C23_Witness ==
    /\ query.op = "get_item_from_position"
    /\ query.path = XmlDoc
    /\ query.pos = <<1, 1>>
    /\ XmlDoc \in DOMAIN documents
    /\ documents[XmlDoc].text = XmlTags
    /\ ~documents[XmlDoc].open
    /\ PhtmlDoc \in DOMAIN state.buffers
    /\ state.buffers[PhtmlDoc] = XmlTags
    /\ query.response = <<>>

\* the value of the attribute of a name in a tag, without the backslashes
\* around it
AttributeValue(node, name) ==
    LET at == {i \in 1..Len(node.attributes) : node.attributes[i][1] = name}
    IN  trim_backslashes(node.attributes[Max(at)][2])

AttributeNames(node) == {node.attributes[i][1] : i \in 1..Len(node.attributes)}

\* a class name: letters and backslashes, the first letter uppercase
IsClassName(text) ==
    /\ Len(text) > 0
    /\ text[1] \in UppercaseLetters
    /\ \A i \in 1..Len(text) : text[i] = "\\" \/ IsLower(text[i]) \/ IsUpper(text[i])

\* C30: with the cursor on the value of an attribute of a tag of an open XML
\* document: on method, instance or class in a tag that has a method
\* attribute and an instance or a class attribute, the item is the Method of
\* the instance value (of the class value when there is no instance) and the
\* method value; on method in a tag with neither instance nor class there is
\* no item; on any other attribute that holds a class name the item is that
\* Class, whether the tag has a method attribute or not.
C30_XmlMethodReferences ==
    (/\ query.op = "get_item_from_position"
     /\ query.path = XmlDoc
     /\ XmlDoc \in DOMAIN documents
     /\ documents[XmlDoc].open
     /\ query.pos[1] \in DOMAIN documents[XmlDoc].text
     /\ query.pos[2] \in 1..Len(documents[XmlDoc].text[query.pos[1]].attributes)) =>
        LET node == documents[XmlDoc].text[query.pos[1]]
            hovered == node.attributes[query.pos[2]][1]
            names == AttributeNames(node)
        IN  /\ (/\ hovered \in {s_method, s_instance, s_class}
                /\ s_method \in names
                /\ s_instance \in names \/ s_class \in names) =>
                   query.result =
                       Some(<<"Method",
                              AttributeValue(node, IF s_instance \in names
                                                   THEN s_instance ELSE s_class),
                              AttributeValue(node, s_method)>>)
            /\ (hovered = s_method /\ s_instance \notin names /\ s_class \notin names) =>
                   query.result = None
            /\ (/\ hovered \notin {s_method, s_instance, s_class}
                /\ IsClassName(AttributeValue(node, hovered))) =>
                   query.result = Some(<<"Class", AttributeValue(node, hovered)>>)

\* C30 witness: in the tag with class, method and instance, the item at the
\* class attribute is the method of the instance
C30_Witness ==
    /\ query.op = "get_item_from_position"
    /\ query.path = XmlDoc
    /\ query.pos = <<3, 1>>
    /\ XmlDoc \in DOMAIN state.buffers
    /\ state.buffers[XmlDoc] = XmlTags
    /\ query.result = Some(<<"Method", A_B, s_metHod>>)

(***************************************************************************)
(* Provenance against the tables (track_entities, clear_from_source).      *)
(***************************************************************************)
\* the facts a provenance record of some source path lists
ListedFacts(s) ==
    UNION {{s.track_entities[path][i] : i \in 1..Len(s.track_entities[path])} :
               path \in DOMAIN s.track_entities}

\* the keys of the tables, as the trackees that name them; a theme recorded
\* for the area Base names an entry of either theme table
TableFacts(s) ==
    {<<"Module", s.modules[i]>> : i \in 1..Len(s.modules)}
        \cup {<<"ModulePath", name>> : name \in DOMAIN s.module_paths}
        \cup {<<"Themes", Frontend, name>> : name \in DOMAIN s.front_themes}
        \cup {<<"Themes", Adminhtml, name>> : name \in DOMAIN s.admin_themes}
        \cup UNION {{<<"JsMap", area, key>> : key \in DOMAIN s.js_maps[area]} : area \in M2Area}
        \cup UNION {{<<"JsMixin", area, key>> : key \in DOMAIN s.js_mixins[area]} : area \in M2Area}

\* C25: in every reachable state of the live documents, where every fact is
\* inserted with a source file set, a key is listed in the provenance record
\* of some source path if and only if the corresponding fact is present in
\* the index tables.
C25_ProvenanceAgreesWithTables ==
    alive =>
        /\ \A trackee \in ListedFacts(state) : Present(state, trackee)
        /\ \A fact \in TableFacts(state) :
               \/ fact \in ListedFacts(state)
               \/ fact[1] = "Themes" /\ <<"Themes", Base, fact[3]>> \in ListedFacts(state)

(***************************************************************************)
(* SpecLive: set_file step by step.  The control thread takes the lock,    *)
(* retracts the old facts of the document, extracts the new ones, stores   *)
(* the buffer and drops the lock, while the jobs of one workspace scan     *)
(* run.  The editor sends the text a file has on disk or an empty text.    *)
(***************************************************************************)
SetFileStages == {"clear_from_source", "maybe_index_file", "buffers_insert"}

LiveContents(path) == {<<>>} \cup (IF disk[path].readable THEN {disk[path].content} ELSE {})

\* js::maybe_index_file, then php::maybe_index_file
maybe_index_files(s, content, path) ==
    LET js_done == js_maybe_index_file(s, content, path)
    IN  IF IsAborted(js_done) THEN js_done
        ELSE php_maybe_index_file(js_done, content, path)

\* state.lock().set_file(path, content): the guard is taken; set_file has
\* the State by &mut self
SetFileLock(path, content) ==
    /\ alive
    /\ control.pc = "idle"
    /\ lock = NoThread
    /\ MapGet(state.buffers, path) # Some(content)
    /\ lock' = ControlThread
    /\ control' = [pc |-> "clear_from_source", path |-> path, content |-> content,
                   before |-> state]
    /\ UNCHANGED <<state, alive, hash_order, jobs, spawned, query, disk, documents, registrations>>

\* a retraction after which the lock is dropped
SetFileClearReleasing ==
    /\ alive
    /\ control.pc = "clear_from_source"
    /\ Commit(clear_from_source(state, control.path))
    /\ control' = [control EXCEPT !.pc = "maybe_index_file"]
    /\ lock' = NoThread
    /\ UNCHANGED <<hash_order, jobs, spawned, query, disk, documents, registrations>>

\* ... self.clear_from_source(path)
SetFileClear ==
    /\ alive
    /\ control.pc = "clear_from_source"
    /\ Commit(clear_from_source(state, control.path))
    /\ control' = [control EXCEPT !.pc = "maybe_index_file"]
    /\ UNCHANGED <<hash_order, lock, jobs, spawned, query, disk, documents, registrations>>

\* ... js::maybe_index_file and php::maybe_index_file
SetFileIndex ==
    /\ alive
    /\ control.pc = "maybe_index_file"
    /\ Commit(maybe_index_files(state, control.content, control.path))
    /\ control' = [control EXCEPT !.pc = "buffers_insert"]
    /\ UNCHANGED <<hash_order, lock, jobs, spawned, query, disk, documents, registrations>>

\* ... self.buffers.insert(path, content); the guard is dropped
SetFileBuffer ==
    /\ alive
    /\ control.pc = "buffers_insert"
    /\ state' = [state EXCEPT !.buffers = MapInsert(@, control.path, control.content)]
    /\ lock' = NoThread
    /\ control' = Idle
    /\ UNCHANGED <<alive, hash_order, jobs, spawned, query, disk, documents, registrations>>

NextLive ==
    \/ NextScanOnce
    \/ \E path \in DOMAIN disk : \E content \in LiveContents(path) : SetFileLock(path, content)
    \/ SetFileClear
    \/ SetFileIndex
    \/ SetFileBuffer

SpecLive == InitScan /\ [][NextLive]_vars

\* a step in which a job enters its critical section or leaves it having
\* indexed a file, or a query is answered
OtherThreadObserves ==
    \/ \E i \in DOMAIN jobs : lock' = JobThread(i) /\ lock # JobThread(i)
    \/ \E i \in DOMAIN jobs : jobs'[i].indexed # jobs[i].indexed
    \/ query' # query

\* C26: from the retraction of P's old facts to the update of the buffer the
\* control thread holds the lock, no job enters a critical section or
\* indexes a file and no query is answered in between, and what set_file
\* leaves when it drops the lock is the retraction, the extraction and the
\* buffer update of one content applied to the state it found.
C26_LiveReindexIsAtomic ==
    [][control.pc \in SetFileStages =>
           /\ lock = ControlThread
           /\ ~OtherThreadObserves
           /\ control'.pc = "idle" /\ alive' =>
                  state' = set_file(control.before, control.path, control.content)]_vars

\* C26 witness: the old facts of a document that was open are retracted and
\* the new ones not yet extracted, while a job waits for the lock
C26_Witness ==
    /\ alive
    /\ control.pc = "maybe_index_file"
    /\ control.path \in DOMAIN state.buffers
    /\ control.path \in DOMAIN control.before.track_entities
    /\ control.path \notin DOMAIN state.track_entities
    /\ \E i \in DOMAIN jobs : jobs[i].pc = "lock"

NoDuplicates(list) == \A i, j \in 1..Len(list) : i # j => list[i] # list[j]

\* C24: however the indexing of a file by a scan job interleaves with the
\* open or change of that file, the mixin list of each key holds each
\* target at most once and the provenance record of each
\* requirejs-config.js file lists each fact at most once.
C24_NoDuplication ==
    alive =>
        /\ \A area \in M2Area : \A key \in DOMAIN state.js_mixins[area] :
               NoDuplicates(state.js_mixins[area][key])
        /\ \A path \in DOMAIN state.track_entities :
               EndsWith(to_path_str(path), s_requirejs_config_js) =>
                   NoDuplicates(state.track_entities[path])

(***************************************************************************)
(* SpecLocks: who holds the mutex.  Besides update_index, find_class and   *)
(* the jobs of one workspace scan, the control thread serves the           *)
(* definition of an admin template, a request that locks twice: once for   *)
(* get_module_path, once for the loop over the admin themes.               *)
(***************************************************************************)
\* index.lock().get_module_path(&mod_name): the guard is taken
AdminPhtmlLock(mod_name, template) ==
    /\ alive
    /\ control.pc = "idle"
    /\ lock = NoThread
    /\ lock' = ControlThread
    /\ control' = [pc |-> "get_module_path", mod_name |-> mod_name, template |-> template]
    /\ UNCHANGED <<state, alive, hash_order, jobs, spawned, query, disk, documents, registrations>>

\* a statement after which the guard is still alive
AdminPhtmlModPathHolding ==
    /\ alive
    /\ control.pc = "get_module_path"
    /\ control' = [pc |-> "themes_lock", mod_name |-> control.mod_name,
                   template |-> control.template,
                   result |-> add_phtml_in_mod_location(state, disk, <<>>, control.mod_name,
                                                        control.template, Adminhtml)]
    /\ UNCHANGED <<state, alive, hash_order, lock, jobs, spawned, query, disk, documents, registrations>>

\* ... the statement ends and the guard is dropped; the candidates in the
\* module are tested without the lock
AdminPhtmlModPath ==
    /\ alive
    /\ control.pc = "get_module_path"
    /\ lock' = NoThread
    /\ control' = [pc |-> "themes_lock", mod_name |-> control.mod_name,
                   template |-> control.template,
                   result |-> add_phtml_in_mod_location(state, disk, <<>>, control.mod_name,
                                                        control.template, Adminhtml)]
    /\ UNCHANGED <<state, alive, hash_order, jobs, spawned, query, disk, documents, registrations>>

\* for theme_path in index.lock().list_admin_themes_paths(): the guard is
\* taken for the loop
AdminPhtmlThemesLock ==
    /\ alive
    /\ control.pc = "themes_lock"
    /\ lock = NoThread
    /\ lock' = ControlThread
    /\ control' = [control EXCEPT !.pc = "themes_loop"]
    /\ UNCHANGED <<state, alive, hash_order, jobs, spawned, query, disk, documents, registrations>>

\* ... the loop tests the candidates in the themes; the guard is dropped
\* when the loop ends
AdminPhtmlThemes ==
    /\ alive
    /\ control.pc = "themes_loop"
    /\ query' = [op |-> "AdminPhtml", mod_name |-> control.mod_name,
                 template |-> control.template,
                 result |-> add_phtml_in_admin_theme_location(state, disk, control.result,
                                control.mod_name, control.template)]
    /\ lock' = NoThread
    /\ control' = Idle
    /\ UNCHANGED <<state, alive, hash_order, jobs, spawned, disk, documents, registrations>>

NextLocks ==
    \/ NextScanOnce
    \/ AdminPhtmlLock(A_b, p_phtml)
    \/ AdminPhtmlModPath
    \/ AdminPhtmlThemesLock
    \/ AdminPhtmlThemes

SpecLocks == InitScan /\ [][NextLocks]_vars

\* the places where a thread asks for the lock / works under it
ControlWaits == control.pc = "themes_lock"
ControlHolds == control.pc \in {"update_index", "try_exists", "parse_php_file",
                                "get_module_path", "themes_loop"}
JobWaits(i) == jobs[i].pc \in {"lock", "insert"}
JobFinished(i) == jobs[i].pc \in {"done", "panicked"}

\* every thread that has not finished waits for the lock, which is taken
AllBlocked ==
    /\ lock # NoThread
    /\ ControlWaits
    /\ \A i \in DOMAIN jobs : JobWaits(i) \/ JobFinished(i)

\* C27: no thread asks for the lock while it holds it: the control thread
\* holds it exactly inside update_index, inside get_php_class_from_class_name
\* and inside the two locked statements of the template request, a job
\* exactly while it indexes one file; and there is no state in which every
\* thread waits for the lock.
C27_NoSelfDeadlock ==
    alive =>
        /\ (lock = ControlThread) <=> ControlHolds
        /\ ControlWaits => lock # ControlThread
        /\ \A i \in DOMAIN jobs :
               /\ (lock = JobThread(i)) <=> (jobs[i].pc = "parse" /\ jobs[i].kind = "JS")
               /\ JobWaits(i) => lock # JobThread(i)
        /\ ~AllBlocked

\* C27 witness: in a template request that has locked once already, the
\* control thread waits for its second lock while a job holds it, and the
\* other job waits as well
C27_Witness ==
    /\ alive
    /\ ControlWaits
    /\ \E i \in DOMAIN jobs : lock = JobThread(i)
    /\ \E i \in DOMAIN jobs : JobWaits(i)

(***************************************************************************)
(* SpecAlias: aliases over three ids in the tables of Frontend and Base,   *)
(* and resolutions from either area.                                       *)
(***************************************************************************)
z == <<"z">>
AliasIds == {x, y, z}
AliasAreas == {Frontend, Base}

NextAlias ==
    \/ \E name, val \in AliasIds : \E area \in AliasAreas : AddComponentMap(name, val, area)
    \/ \E text \in AliasIds : \E area \in AliasAreas : ResolveMaps(text, area)

SpecAlias == InitMaps /\ [][NextAlias]_vars

\* the aliases a resolution from the area may follow: those of its table and
\* those of Base
AliasEdges(s, area) ==
    UNION {{<<k, s.js_maps[a][k]>> : k \in DOMAIN s.js_maps[a]} : a \in {area, Base}}

\* the ids reached from id in at most n steps
RECURSIVE AliasReach(_, _, _)
AliasReach(edges, ids, n) ==
    IF n = 0 THEN ids
    ELSE AliasReach(edges, ids \cup {e[2] : e \in {f \in edges : f[1] \in ids}}, n - 1)

\* no id comes back to itself
AcyclicAliases(s, area) ==
    \A e \in AliasEdges(s, area) :
        e[1] \notin AliasReach(AliasEdges(s, area), {e[2]}, Cardinality(AliasIds))

\* C28: for every acyclic alias configuration, the text a resolution from
\* area A returns has no alias in A's table nor in the Base table, and
\* resolving it again from A gives the same text.
C28_ResolvedIsFixedPoint ==
    (query.op = "resolve_maps" /\ AcyclicAliases(state, query.area)) =>
        /\ query.result.tag = "Some"
        /\ query.result.val \notin DOMAIN state.js_maps[query.area]
        /\ query.result.val \notin DOMAIN state.js_maps[Base]
        /\ resolve_maps(state, query.result.val, query.area) = query.result

(***************************************************************************)
(* SpecComponents: has_components on the paths of up to MaxComps           *)
(* components and the non-empty lists of up to two parts.                  *)
(***************************************************************************)
MaxComps == 4       \* components of a path

ComponentNames == {s_view, s_base, s_design}
ComponentPaths == SeqsUpTo(ComponentNames, MaxComps)
ComponentParts == SeqsUpTo(ComponentNames, 2) \ {<<>>}

HasComponents(path, parts) ==
    /\ query = NoQuery
    /\ query' = [op |-> "has_components", path |-> path, parts |-> parts,
                 result |-> has_components(path, parts)]
    /\ UNCHANGED <<state, alive, hash_order, lock, control, jobs, spawned, disk, documents, registrations>>

NextComponents ==
    \E path \in ComponentPaths : \E parts \in ComponentParts : HasComponents(path, parts)

SpecComponents == InitMaps /\ [][NextComponents]_vars

\* the parts are consecutive components of the path, in order
OccursIn(path, parts) ==
    \E k \in 0..(Len(path) - Len(parts)) : SubSeq(path, k + 1, k + Len(parts)) = parts

\* C29: has_components(parts) is true exactly when the non-empty list parts
\* occurs as consecutive components, in order, somewhere in the path.
C29_HasComponentsIsInfix ==
    query.op = "has_components" => (query.result <=> OccursIn(query.path, query.parts))

====
